---- MODULE Spec2Model ----
(***************************************************************************)
(* Expense ledger of the CSE-3216 SDP project: the ExpenseRepository       *)
(* queries (backend/app/repositories/expense_repository.py) and the        *)
(* ExpenseService handlers and dashboard views built on them               *)
(* (backend/app/services/expenses.py); and the application core: the       *)
(* singleton managers (backend/app/core), their store sessions and the     *)
(* rate limiter (backend/app/decorators/rate_limit.py), whose calls run    *)
(* on threads and are modelled statement by statement.                     *)
(*                                                                         *)
(* Conventions                                                             *)
(*   - An Optional value is a sequence: None is << >>, a present value v   *)
(*     is <<v>>.                                                           *)
(*   - A datetime is an integer: proleptic Gregorian ordinal of the day    *)
(*     (Python's date.toordinal()) times TicksPerDay, plus the tick within *)
(*     the day.  Tick 0 is 00:00:00.000000 and tick TicksPerDay-1 is       *)
(*     23:59:59.999999, the last representable instant of the day.         *)
(*   - An amount is an integer number of hundredths (round(x, 2) is then   *)
(*     the identity on sums); a percentage is an integer number of         *)
(*     hundredths of a percent, so 100.00 is 10000 and 0.1 is 10.          *)
(*   - A free-text value is a sequence of one-character strings; category  *)
(*     labels, which are only compared for equality, are strings.          *)
(***************************************************************************)
EXTENDS Integers, Sequences, FiniteSets, TLC

VARIABLES
    expenses,   \* the expenses table: id -> row, for the ids that exist
    nextId,     \* the next id the store assigns
    now,        \* datetime.now() of the process
    resp,       \* the outcome of the last handler call
    pc,         \* thread -> the statement it is about to run ("idle": no call)
    local,      \* thread -> the arguments and local variables of its call
    lock,       \* SingletonMeta._lock: the thread that holds it, or None
    instances,  \* SingletonMeta._instances: class -> the object registered
    objects,    \* the manager objects ever constructed, by identity
    returned,   \* the <<class, object>> pairs that calls have returned
    services,   \* ServiceManager._services: name -> service
    sessions,   \* the store sessions ever opened, by identity
    calls,      \* RateLimiter._calls: key -> timestamps
    limiterLock,\* RateLimiter._lock: the thread that holds it, or None
    clock,      \* time.time()
    allowed     \* key -> the timestamps of the calls answered True

ledgerVars == <<expenses, nextId, now, resp>>
threadVars == <<pc, local>>
singletonVars == <<lock, instances, objects, returned>>
limiterVars == <<calls, limiterLock, clock, allowed>>
coreVars == <<threadVars, singletonVars, services, sessions, limiterVars>>

vars == <<ledgerVars, coreVars>>

None == << >>
Some(v) == <<v>>

(***************************************************************************)
(* Bounds of the model.                                                    *)
(***************************************************************************)
MaxThreads == 2
TicksPerDay == 2
MaxRows == 2      \* ids the store assigns in the specifications of the views
PageRows == 5     \* ids the store assigns in the specification of the pages
MaxPage == 3
MaxLimit == 2

(***************************************************************************)
(* Calendar arithmetic of Python's datetime and calendar modules, as the   *)
(* handlers call it.                                                       *)
(***************************************************************************)
IsLeap(y) == y % 4 = 0 /\ (y % 100 # 0 \/ y % 400 = 0)

\* calendar.monthrange(y, m)[1]
DaysInMonth(y, m) ==
    IF m = 2 THEN (IF IsLeap(y) THEN 29 ELSE 28)
    ELSE IF m \in {4, 6, 9, 11} THEN 30 ELSE 31

DaysBeforeYear(y) ==
    (y - 1) * 365 + ((y - 1) \div 4) - ((y - 1) \div 100) + ((y - 1) \div 400)

RECURSIVE DaysBeforeMonth(_, _)
DaysBeforeMonth(y, m) ==
    IF m = 1 THEN 0 ELSE DaysBeforeMonth(y, m - 1) + DaysInMonth(y, m - 1)

\* datetime(y, m, d) is a ValueError unless this holds
ValidDate(y, m, d) == m \in 1..12 /\ d \in 1..DaysInMonth(y, m)

Ymd2Ord(y, m, d) == DaysBeforeYear(y) + DaysBeforeMonth(y, m) + d

\* the calendar year of an ordinal (datetime._ord2ymd)
YearOfOrd(n) ==
    LET n0   == n - 1
        n400 == n0 \div 146097
        r400 == n0 % 146097
        n100 == r400 \div 36524
        r100 == r400 % 36524
        n4   == r100 \div 1461
        r4   == r100 % 1461
        n1   == r4 \div 365
        y    == n400 * 400 + 1 + n100 * 100 + n4 * 4 + n1
    IN  IF n1 = 4 \/ n100 = 4 THEN y - 1 ELSE y

RECURSIVE MonthFrom(_, _, _)
MonthFrom(y, m, dayOfYear) ==
    IF dayOfYear <= DaysInMonth(y, m) THEN m
    ELSE MonthFrom(y, m + 1, dayOfYear - DaysInMonth(y, m))

MonthOfOrd(n) == LET y == YearOfOrd(n) IN MonthFrom(y, 1, n - DaysBeforeYear(y))

DayOfOrd(n) ==
    LET y == YearOfOrd(n)
    IN  n - DaysBeforeYear(y) - DaysBeforeMonth(y, MonthOfOrd(n))

\* date.weekday(): Monday is 0
Weekday(n) == (n + 6) % 7

\* datetime._isoweek1monday(year)
IsoWeek1Monday(y) ==
    LET firstday     == Ymd2Ord(y, 1, 1)
        firstweekday == Weekday(firstday)
        monday       == firstday - firstweekday
    IN  IF firstweekday > 3 THEN monday + 7 ELSE monday

\* date.isocalendar(): <<ISO year, ISO week, ISO weekday>>
IsoCalendar(n) ==
    LET y    == YearOfOrd(n)
        week == (n - IsoWeek1Monday(y)) \div 7
        day  == (n - IsoWeek1Monday(y)) % 7
    IN  IF week < 0
        THEN <<y - 1, ((n - IsoWeek1Monday(y - 1)) \div 7) + 1,
               ((n - IsoWeek1Monday(y - 1)) % 7) + 1>>
        ELSE IF week >= 52 /\ n >= IsoWeek1Monday(y + 1)
        THEN <<y + 1, 1, day + 1>>
        ELSE <<y, week + 1, day + 1>>

\* date.fromisocalendar(iso_year, iso_week, iso_day), as an ordinal
FromIsoCalendar(y, w, d) == IsoWeek1Monday(y) + (w - 1) * 7 + (d - 1)

\* datetimes
DateOf(dt) == dt \div TicksPerDay
TimeOf(dt) == dt % TicksPerDay
DayStart(ord) == ord * TicksPerDay
DayEnd(ord) == ord * TicksPerDay + (TicksPerDay - 1)
YearOf(dt) == YearOfOrd(DateOf(dt))
MonthOf(dt) == MonthOfOrd(DateOf(dt))
DayOf(dt) == DayOfOrd(DateOf(dt))
\* datetime(y, m, d, 0, 0, 0, 0)
DateTime(y, m, d) == DayStart(Ymd2Ord(y, m, d))
\* timedelta(days=n)
Days(n) == n * TicksPerDay

\* strftime / f-string formatting of the labels
Digit(n) == <<"0", "1", "2", "3", "4", "5", "6", "7", "8", "9">>[n + 1]
Pad2(n) == Digit((n \div 10) % 10) \o Digit(n % 10)
Pad4(n) == Pad2(n \div 100) \o Pad2(n % 100)

(***************************************************************************)
(* Users and rows.                                                         *)
(***************************************************************************)
Users == {"u1", "u2"}

RowFields ==
    {"id", "user_id", "amount", "currency", "category", "subcategory", "merchant",
     "description", "date", "payment_method", "is_recurring", "recurrence_rule",
     "tags", "receipt_url", "created_at"}

\* the rows of the table, as a set (each row carries its id)
Rows(table) == {table[i] : i \in DOMAIN table}

RECURSIVE SumAmount(_)
SumAmount(S) ==
    IF S = {} THEN 0
    ELSE LET r == CHOOSE x \in S : TRUE IN r.amount + SumAmount(S \ {r})

(***************************************************************************)
(* Text: PostgreSQL ILIKE.  In a pattern % matches any run of characters   *)
(* and _ matches exactly one character; every other character matches      *)
(* itself, letters regardless of case.  NULL ILIKE pattern is NULL, which  *)
(* a filter treats as false.                                               *)
(***************************************************************************)
Lower(c) == IF c = "A" THEN "a" ELSE IF c = "B" THEN "b" ELSE c

RECURSIVE LikeMatch(_, _)
LikeMatch(s, p) ==
    IF p = << >> THEN s = << >>
    ELSE IF Head(p) = "%"
         THEN LikeMatch(s, Tail(p)) \/ (s # << >> /\ LikeMatch(Tail(s), p))
    ELSE IF Head(p) = "_"
         THEN s # << >> /\ LikeMatch(Tail(s), Tail(p))
    ELSE s # << >> /\ Lower(Head(s)) = Lower(Head(p)) /\ LikeMatch(Tail(s), Tail(p))

\* column.ilike(pattern) on an Optional text column
ILike(col, pattern) == col # None /\ LikeMatch(col[1], pattern)

(***************************************************************************)
(* json.dumps / json.loads of a tag list.  The encoded text is a sequence  *)
(* of tokens: "[", the tags separated by ",", then "]".                    *)
(***************************************************************************)
RECURSIVE JsonItems(_)
JsonItems(tags) ==
    IF tags = << >> THEN << >>
    ELSE IF Len(tags) = 1 THEN <<Head(tags)>>
    ELSE <<Head(tags), ",">> \o JsonItems(Tail(tags))

JsonDumps(tags) == <<"[">> \o JsonItems(tags) \o <<"]">>

JsonPunct == {"[", "]", ","}

\* the tags between the brackets, or the string "JSONDecodeError"
RECURSIVE JsonParseItems(_)
JsonParseItems(toks) ==
    IF toks = << >> THEN << >>
    ELSE IF Head(toks) \in JsonPunct THEN "JSONDecodeError"
    ELSE IF Len(toks) = 1 THEN <<Head(toks)>>
    ELSE IF toks[2] # "," \/ Len(toks) = 2 THEN "JSONDecodeError"
    ELSE LET rest == JsonParseItems(SubSeq(toks, 3, Len(toks)))
         IN  IF rest = "JSONDecodeError" THEN rest ELSE <<Head(toks)>> \o rest

\* what json.loads gives for the JSON literal null (Python's None)
JsonNull == "null"

JsonLoads(text) ==
    IF text = <<"null">> THEN JsonNull
    ELSE IF Len(text) < 2 \/ text[1] # "[" \/ text[Len(text)] # "]"
    THEN "JSONDecodeError"
    ELSE JsonParseItems(SubSeq(text, 2, Len(text) - 1))

(***************************************************************************)
(* ExpenseRepository                                                       *)
(***************************************************************************)
NoFilter ==
    [start_date |-> None, end_date |-> None, category |-> None,
     min_amount |-> None, max_amount |-> None, search |-> None]

\* if start_date: / if end_date:  (a datetime is always truthy)
FilterDates(r, f) ==
    /\ (f.start_date # None => r.date >= f.start_date[1])
    /\ (f.end_date # None => r.date <= f.end_date[1])

\* if category:  (None and the empty string are falsy)
FilterCategory(r, f) ==
    (f.category # None /\ f.category[1] # "") => r.category = f.category[1]

\* if min_amount is not None: / if max_amount is not None:
FilterAmounts(r, f) ==
    /\ (f.min_amount # None => r.amount >= f.min_amount[1])
    /\ (f.max_amount # None => r.amount <= f.max_amount[1])

\* if search:  pattern = f"%{search}%", matched against three columns
FilterSearch(r, f) ==
    (f.search # None /\ f.search[1] # << >>) =>
        LET pattern == <<"%">> \o f.search[1] \o <<"%">>
        IN  \/ ILike(r.description, pattern)
            \/ ILike(r.merchant, pattern)
            \/ ILike(r.subcategory, pattern)

\* _filtered_query without its first predicate, the restriction to the user
FilteredQuery_AnyOwner(table, user_id, f) ==
    {r \in Rows(table) :
        /\ FilterDates(r, f)
        /\ FilterCategory(r, f)
        /\ FilterAmounts(r, f)
        /\ FilterSearch(r, f)}

\* ExpenseRepository._filtered_query
FilteredQuery(table, user_id, f) ==
    {r \in Rows(table) :
        /\ r.user_id = user_id
        /\ FilterDates(r, f)
        /\ FilterCategory(r, f)
        /\ FilterAmounts(r, f)
        /\ FilterSearch(r, f)}

\* ORDER BY date DESC: every sequence of the rows of S with dates
\* non-increasing; the store leaves the order of equal dates open
RECURSIVE OrderByDateDesc(_)
OrderByDateDesc(S) ==
    IF S = {} THEN {<< >>}
    ELSE UNION {{<<r>> \o t : t \in OrderByDateDesc(S \ {r})} :
                r \in {x \in S : \A y \in S : y.date <= x.date}}

\* .offset(k).limit(n)
OffsetLimit(seq, k, n) ==
    IF k >= Len(seq) THEN << >>
    ELSE SubSeq(seq, k + 1, IF k + n <= Len(seq) THEN k + n ELSE Len(seq))

\* list_expenses with the page number taken as 0-based: offset = page * limit
ListExpenses_ZeroBasedPage(table, user_id, f, page, limit) ==
    LET query == FilteredQuery(table, user_id, f)
    IN  {[expenses |-> OffsetLimit(ord, page * limit, limit),
          total    |-> Cardinality(query)] : ord \in OrderByDateDesc(query)}

\* ExpenseRepository.list_expenses: the possible <<rows, total>> results
ListExpenses(table, user_id, f, page, limit) ==
    LET query == FilteredQuery(table, user_id, f)
    IN  {[expenses |-> OffsetLimit(ord, (page - 1) * limit, limit),
          total    |-> Cardinality(query)] : ord \in OrderByDateDesc(query)}

\* get_expense_for_user looking the id up whoever owns the row
GetExpenseForUser_AnyOwner(table, expense_id, user_id) ==
    IF expense_id \in DOMAIN table THEN Some(table[expense_id]) ELSE None

\* ExpenseRepository.get_expense_for_user: the row, or None
GetExpenseForUser(table, expense_id, user_id) ==
    IF expense_id \in DOMAIN table /\ table[expense_id].user_id = user_id
    THEN Some(table[expense_id]) ELSE None

\* the row ExpenseRepository.create_expense inserts
NewRow(id, user_id, data, created) ==
    [id |-> id, user_id |-> user_id, amount |-> data.amount,
     currency |-> data.currency, category |-> data.category,
     subcategory |-> data.subcategory, merchant |-> data.merchant,
     description |-> data.description, date |-> data.date,
     payment_method |-> data.payment_method, is_recurring |-> data.is_recurring,
     recurrence_rule |-> data.recurrence_rule,
     tags |-> IF data.tags # << >> THEN Some(JsonDumps(data.tags)) ELSE None,
     receipt_url |-> None, created_at |-> created]

\* the row after ExpenseRepository.update_expense applies update_data
UpdatedRow(row, update_data) ==
    [k \in DOMAIN row |->
        IF k \in DOMAIN update_data
        THEN IF k = "tags"
             THEN (IF update_data[k] # << >> THEN Some(JsonDumps(update_data[k]))
                   ELSE None)
             ELSE update_data[k]
        ELSE row[k]]

\* every sequence that lists the elements of S once
RECURSIVE Perms(_)
Perms(S) ==
    IF S = {} THEN {<< >>}
    ELSE UNION {{<<x>> \o t : t \in Perms(S \ {x})} : x \in S}

\* GROUP BY category with sum(amount) and count(id)
CategoryGroups(S) ==
    {[category     |-> c,
      total_amount |-> SumAmount({r \in S : r.category = c}),
      count        |-> Cardinality({r \in S : r.category = c})] :
        c \in {r.category : r \in S}}

\* ExpenseRepository.get_category_totals: the groups, in any order
GetCategoryTotals(table, user_id) ==
    Perms(CategoryGroups({r \in Rows(table) : r.user_id = user_id}))

\* get_category_totals_in_period with the end of the period excluded
GetCategoryTotalsInPeriod_ExclusiveEnd(table, user_id, start_date, end_date) ==
    Perms(CategoryGroups({r \in Rows(table) :
        r.user_id = user_id /\ r.date >= start_date /\ r.date < end_date}))

\* ExpenseRepository.get_category_totals_in_period: the groups, in any order
GetCategoryTotalsInPeriod(table, user_id, start_date, end_date) ==
    Perms(CategoryGroups({r \in Rows(table) :
        r.user_id = user_id /\ r.date >= start_date /\ r.date <= end_date}))

\* ExpenseRepository.sum_in_period: float(total or 0), SUM over no row being NULL
SumInPeriod(table, user_id, start_date, end_date) ==
    LET S == {r \in Rows(table) :
                r.user_id = user_id /\ r.date >= start_date /\ r.date <= end_date}
        total == IF S = {} THEN None ELSE Some(SumAmount(S))
    IN  IF total = None \/ total = Some(0) THEN 0 ELSE total[1]

\* get_monthly_category_totals with the end of the period included
GetMonthlyCategoryTotals_InclusiveEnd(table, user_id, start_date, end_date) ==
    LET S == {r \in Rows(table) :
                r.user_id = user_id /\ r.date >= start_date /\ r.date <= end_date}
        G(y, m, c) == {r \in S : YearOf(r.date) = y /\ MonthOf(r.date) = m
                                 /\ r.category = c}
    IN  Perms({[year |-> YearOf(r.date), month |-> MonthOf(r.date),
                category |-> r.category,
                total_amount |-> SumAmount(G(YearOf(r.date), MonthOf(r.date),
                                             r.category))] : r \in S})

\* ExpenseRepository.get_monthly_category_totals: the groups, in any order
GetMonthlyCategoryTotals(table, user_id, start_date, end_date) ==
    LET S == {r \in Rows(table) :
                r.user_id = user_id /\ r.date >= start_date /\ r.date < end_date}
        G(y, m, c) == {r \in S : YearOf(r.date) = y /\ MonthOf(r.date) = m
                                 /\ r.category = c}
    IN  Perms({[year |-> YearOf(r.date), month |-> MonthOf(r.date),
                category |-> r.category,
                total_amount |-> SumAmount(G(YearOf(r.date), MonthOf(r.date),
                                             r.category))] : r \in S})

\* ExpenseRepository.get_expenses_since
GetExpensesSince(table, user_id, start_date) ==
    {r \in Rows(table) : r.user_id = user_id /\ r.date >= start_date}

\* ORDER BY amount DESC: the store leaves the order of equal amounts open
RECURSIVE OrderByAmountDesc(_)
OrderByAmountDesc(S) ==
    IF S = {} THEN {<< >>}
    ELSE UNION {{<<r>> \o t : t \in OrderByAmountDesc(S \ {r})} :
                r \in {x \in S : \A y \in S : y.amount <= x.amount}}

\* ExpenseRepository.get_top_transactions: the possible results
GetTopTransactions(table, user_id, start_date, limit) ==
    {OffsetLimit(ord, 0, limit) :
        ord \in OrderByAmountDesc({r \in Rows(table) :
                    r.user_id = user_id /\ r.date >= start_date})}

\* ExpenseRepository.get_recurring_expenses: the possible results
GetRecurringExpensesRows(table, user_id) ==
    OrderByDateDesc({r \in Rows(table) : r.user_id = user_id /\ r.is_recurring})

\* list_for_export ordering by date ascending
ListForExport_OldestFirst(table, user_id, start_date, end_date) ==
    {[i \in 1..Len(seq) |-> seq[Len(seq) + 1 - i]] :
        seq \in OrderByDateDesc(FilteredQuery(table, user_id,
            [NoFilter EXCEPT !.start_date = start_date, !.end_date = end_date]))}

\* ExpenseRepository.list_for_export: the possible results
ListForExport(table, user_id, start_date, end_date) ==
    OrderByDateDesc(FilteredQuery(table, user_id,
        [NoFilter EXCEPT !.start_date = start_date, !.end_date = end_date]))

\* ExpenseRepository.list_in_period
ListInPeriod(table, user_id, start_date, end_date) ==
    FilteredQuery(table, user_id,
        [NoFilter EXCEPT !.start_date = start_date, !.end_date = end_date])

(***************************************************************************)
(* Rounding and sorting as the service does them.                          *)
(***************************************************************************)
\* round(num / den) for den > 0, ties to the even neighbour
RoundDiv(num, den) ==
    LET q == num \div den
        r == num % den
    IN  IF 2 * r < den THEN q
        ELSE IF 2 * r > den THEN q + 1
        ELSE IF q % 2 = 0 THEN q ELSE q + 1

\* round((part / total) * 100, 2) if total > 0 else 0, in hundredths of a percent
Percentage(part, total) == IF total > 0 THEN RoundDiv(part * 10000, total) ELSE 0

\* the order of an ascending sort read backwards: keys descending, equal keys
\* in the reverse of their original order
RECURSIVE SortedIndicesDesc_TiesReversed(_)
SortedIndicesDesc_TiesReversed(keys) ==
    IF keys = << >> THEN << >>
    ELSE LET n    == Len(keys)
             done == SortedIndicesDesc_TiesReversed(SubSeq(keys, 1, n - 1))
             k    == Cardinality({i \in 1..Len(done) : keys[done[i]] > keys[n]})
         IN  SubSeq(done, 1, k) \o <<n>> \o SubSeq(done, k + 1, Len(done))

\* list.sort(key=..., reverse=True): the indices of keys in the order of the
\* sorted list, keys descending and equal keys in their original order
RECURSIVE SortedIndicesDesc(_)
SortedIndicesDesc(keys) ==
    IF keys = << >> THEN << >>
    ELSE LET n    == Len(keys)
             done == SortedIndicesDesc(SubSeq(keys, 1, n - 1))
             k    == Cardinality({i \in 1..Len(done) : keys[done[i]] >= keys[n]})
         IN  SubSeq(done, 1, k) \o <<n>> \o SubSeq(done, k + 1, Len(done))

StableSortDesc(seq, keys) ==
    [i \in 1..Len(seq) |-> seq[SortedIndicesDesc(keys)[i]]]

\* list.sort(key=...): ascending and stable
StableSortAsc(seq, keys) ==
    StableSortDesc(seq, [i \in 1..Len(keys) |-> 0 - keys[i]])

RECURSIVE SumSeq(_)
SumSeq(seq) == IF seq = << >> THEN 0 ELSE Head(seq) + SumSeq(Tail(seq))

(***************************************************************************)
(* ExpenseService: CRUD handlers                                           *)
(***************************************************************************)
\* Calls are made one at a time: a handler runs from start to end, and the
\* next one starts once the caller has taken the outcome of the last.
Idle == resp.op = "none"

Consume ==
    /\ resp.op # "none"
    /\ resp' = [op |-> "none", user |-> "u1", status |-> "ok"]
    /\ UNCHANGED <<expenses, nextId, now, coreVars>>

\* ExpenseOut.model_validate(expense): the row as the response schema shows it,
\* the tags as a sequence
ExpenseOut(r) ==
    [r EXCEPT !.tags =
        IF \/ r.tags = None
           \/ JsonLoads(r.tags[1]) = "JSONDecodeError"
           \/ JsonLoads(r.tags[1]) = JsonNull
        THEN << >>
        ELSE JsonLoads(r.tags[1])]

\* _expense_to_response handing on the stored JSON text of the tags undecoded
ExpenseToResponse_Undecoded(r) ==
    [ExpenseOut(r) EXCEPT !.tags = IF r.tags # None THEN r.tags[1] ELSE << >>]

\* ExpenseService._expense_to_response: the row with its tags decoded
ExpenseToResponse(r) ==
    [ExpenseOut(r) EXCEPT !.tags =
        IF r.tags # None
        THEN (IF JsonLoads(r.tags[1]) = "JSONDecodeError" THEN << >>
              ELSE JsonLoads(r.tags[1]))
        ELSE << >>]

\* ExpenseService.create_expense
CreateExpense(user, data) ==
    /\ Idle
    /\ expenses' = [i \in DOMAIN expenses \cup {nextId} |->
                      IF i = nextId THEN NewRow(nextId, user, data, now)
                      ELSE expenses[i]]
    /\ nextId' = nextId + 1
    /\ resp' = [op |-> "create_expense", user |-> user, status |-> "ok",
                data |-> ExpenseOut(NewRow(nextId, user, data, now))]
    /\ UNCHANGED <<now, coreVars>>

\* ExpenseService.update_expense
UpdateExpense(user, expense_id, update_data) ==
    LET found == GetExpenseForUser(expenses, expense_id, user)
    IN  /\ Idle
        /\ IF found = None
           THEN /\ resp' = [op |-> "update_expense", user |-> user,
                            status |-> "not_found", data |-> None]
                /\ UNCHANGED expenses
           ELSE /\ expenses' = [expenses EXCEPT
                                  ![expense_id] = UpdatedRow(found[1], update_data)]
                /\ resp' = [op |-> "update_expense", user |-> user, status |-> "ok",
                            data |-> ExpenseOut(UpdatedRow(found[1], update_data))]
        /\ UNCHANGED <<nextId, now, coreVars>>

\* ExpenseService.delete_expense
DeleteExpense(user, expense_id) ==
    LET found == GetExpenseForUser(expenses, expense_id, user)
    IN  /\ Idle
        /\ IF found = None
           THEN /\ resp' = [op |-> "delete_expense", user |-> user,
                            status |-> "not_found", data |-> None]
                /\ UNCHANGED expenses
           ELSE /\ expenses' = [i \in DOMAIN expenses \ {expense_id} |-> expenses[i]]
                /\ resp' = [op |-> "delete_expense", user |-> user, status |-> "ok",
                            data |-> ExpenseOut(found[1])]
        /\ UNCHANGED <<nextId, now, coreVars>>

(***************************************************************************)
(* The write handlers with a store that may fail.  store tells how far the *)
(* store gets: "commit_fails" - the commit raises and nothing is           *)
(* persisted; "refresh_fails" - the commit succeeds and the refresh that   *)
(* follows it raises; "ok" - neither raises.  Every exception inside the   *)
(* try block ends in repo.rollback() and an HTTP 500 ("failed"); rollback  *)
(* discards what is not committed.                                         *)
(***************************************************************************)
StoreOutcomes == {"ok", "commit_fails", "refresh_fails"}

\* the outcome of a write handler
Written(op, user, args, status, data) ==
    [op |-> op, user |-> user, status |-> status, args |-> args, data |-> data]

\* ExpenseService.create_expense
CreateExpenseOn(user, data, store) ==
    LET row  == NewRow(nextId, user, data, now)
        args == [data |-> data, store |-> store]
    IN  /\ Idle
        /\ IF store = "commit_fails"
           THEN /\ UNCHANGED <<expenses, nextId>>
                /\ resp' = Written("create_expense", user, args, "failed", None)
           ELSE /\ expenses' = [i \in DOMAIN expenses \cup {nextId} |->
                                  IF i = nextId THEN row ELSE expenses[i]]
                /\ nextId' = nextId + 1
                /\ resp' = IF store = "refresh_fails"
                           THEN Written("create_expense", user, args, "failed", None)
                           ELSE Written("create_expense", user, args, "ok",
                                        ExpenseOut(row))
        /\ UNCHANGED <<now, coreVars>>

\* update_expense storing the whole update_data over the row
UpdateExpenseOn_Overwrite(user, expense_id, update_data, store) ==
    LET found == GetExpenseForUser(expenses, expense_id, user)
        args  == [id |-> expense_id, update_data |-> update_data, store |-> store]
        blank == [k \in RowFields |-> None]
        row   == [k \in RowFields |->
                    IF k \in {"id", "user_id", "created_at"} THEN found[1][k]
                    ELSE UpdatedRow(blank, update_data)[k]]
    IN  /\ Idle
        /\ IF found = None
           THEN /\ resp' = Written("update_expense", user, args, "not_found", None)
                /\ UNCHANGED expenses
           ELSE IF store = "commit_fails"
           THEN /\ resp' = Written("update_expense", user, args, "failed", None)
                /\ UNCHANGED expenses
           ELSE /\ expenses' = [expenses EXCEPT ![expense_id] = row]
                /\ resp' = IF store = "refresh_fails"
                           THEN Written("update_expense", user, args, "failed", None)
                           ELSE Written("update_expense", user, args, "ok",
                                        ExpenseOut(row))
        /\ UNCHANGED <<nextId, now, coreVars>>

\* ExpenseService.update_expense
UpdateExpenseOn(user, expense_id, update_data, store) ==
    LET found == GetExpenseForUser(expenses, expense_id, user)
        args  == [id |-> expense_id, update_data |-> update_data, store |-> store]
    IN  /\ Idle
        /\ IF found = None
           THEN /\ resp' = Written("update_expense", user, args, "not_found", None)
                /\ UNCHANGED expenses
           ELSE IF store = "commit_fails"
           THEN /\ resp' = Written("update_expense", user, args, "failed", None)
                /\ UNCHANGED expenses
           ELSE /\ expenses' = [expenses EXCEPT
                                  ![expense_id] = UpdatedRow(found[1], update_data)]
                /\ resp' = IF store = "refresh_fails"
                           THEN Written("update_expense", user, args, "failed", None)
                           ELSE Written("update_expense", user, args, "ok",
                                        ExpenseOut(UpdatedRow(found[1], update_data)))
        /\ UNCHANGED <<nextId, now, coreVars>>

\* ExpenseService.delete_expense: the commit is its last call of the store
DeleteExpenseOn(user, expense_id, store) ==
    LET found == GetExpenseForUser(expenses, expense_id, user)
        args  == [id |-> expense_id, store |-> store]
    IN  /\ Idle
        /\ IF found = None
           THEN /\ resp' = Written("delete_expense", user, args, "not_found", None)
                /\ UNCHANGED expenses
           ELSE IF store = "commit_fails"
           THEN /\ resp' = Written("delete_expense", user, args, "failed", None)
                /\ UNCHANGED expenses
           ELSE /\ expenses' = [i \in DOMAIN expenses \ {expense_id} |-> expenses[i]]
                /\ resp' = Written("delete_expense", user, args, "ok",
                                   ExpenseOut(found[1]))
        /\ UNCHANGED <<nextId, now, coreVars>>

\* ExpenseService.upload_receipt; upload is the outcome of upload_receipt_image:
\* the URL of the stored image, or None when it raises
UploadReceipt(user, expense_id, upload, store) ==
    LET found == GetExpenseForUser(expenses, expense_id, user)
        args  == [id |-> expense_id, upload |-> upload, store |-> store]
        row   == [found[1] EXCEPT !.receipt_url = upload]
    IN  /\ Idle
        /\ IF found = None
           THEN /\ resp' = Written("upload_receipt", user, args, "not_found", None)
                /\ UNCHANGED expenses
           ELSE IF upload = None \/ store = "commit_fails"
           THEN /\ resp' = Written("upload_receipt", user, args, "failed", None)
                /\ UNCHANGED expenses
           ELSE /\ expenses' = [expenses EXCEPT ![expense_id] = row]
                /\ resp' = IF store = "refresh_fails"
                           THEN Written("upload_receipt", user, args, "failed", None)
                           ELSE Written("upload_receipt", user, args, "ok",
                                        ExpenseOut(row))
        /\ UNCHANGED <<nextId, now, coreVars>>

\* get_expenses answering "not found" when the page is empty
GetExpenses_NotFoundOnEmpty(user, f, page, limit) ==
    /\ Idle
    /\ \E res \in ListExpenses(expenses, user, f, page, limit) :
          resp' = IF res.expenses = << >>
                  THEN [op |-> "get_expenses", user |-> user, status |-> "not_found",
                        args |-> [filter |-> f, page |-> page, limit |-> limit],
                        data |-> << >>,
                        meta |-> [page |-> page, limit |-> limit, total |-> res.total,
                                  pages |-> (res.total + limit - 1) \div limit]]
                  ELSE [op |-> "get_expenses", user |-> user, status |-> "ok",
                        args |-> [filter |-> f, page |-> page, limit |-> limit],
                        data |-> [i \in 1..Len(res.expenses) |->
                                    ExpenseToResponse(res.expenses[i])],
                        meta |-> [page |-> page, limit |-> limit, total |-> res.total,
                                  pages |-> (res.total + limit - 1) \div limit]]
    /\ UNCHANGED <<expenses, nextId, now, coreVars>>

\* ExpenseService.get_expenses
GetExpenses(user, f, page, limit) ==
    /\ Idle
    /\ \E res \in ListExpenses(expenses, user, f, page, limit) :
          resp' = [op |-> "get_expenses", user |-> user, status |-> "ok",
                   args |-> [filter |-> f, page |-> page, limit |-> limit],
                   data |-> [i \in 1..Len(res.expenses) |->
                               ExpenseToResponse(res.expenses[i])],
                   meta |-> [page |-> page, limit |-> limit, total |-> res.total,
                             pages |-> (res.total + limit - 1) \div limit]]
    /\ UNCHANGED <<expenses, nextId, now, coreVars>>

(***************************************************************************)
(* ExpenseService: read handlers and dashboard views.  Each view is an     *)
(* operator giving the possible values of the "data" it returns (several   *)
(* where the store leaves an order open), and an action that returns one.  *)
(***************************************************************************)
Max(a, b) == IF a >= b THEN a ELSE b

\* the raise of an exception no handler catches
Raised(op, user, args, what) ==
    [op |-> op, user |-> user, status |-> what, args |-> args, data |-> None]

Ok(op, user, args, data) ==
    [op |-> op, user |-> user, status |-> "ok", args |-> args, data |-> data]

\* get_total_spend_dashboard: the bounds of the two periods it sums
CurrentMonthStart(t) == DateTime(YearOf(t), MonthOf(t), 1)
\* the current period ending at the call time
CurrentMonthEnd_ToDate(t) == t

CurrentMonthEnd(t) ==
    DayEnd(Ymd2Ord(YearOf(t), MonthOf(t), DaysInMonth(YearOf(t), MonthOf(t))))
PrevYear(t) == IF MonthOf(t) = 1 THEN YearOf(t) - 1 ELSE YearOf(t)
PrevMonth(t) == IF MonthOf(t) = 1 THEN 12 ELSE MonthOf(t) - 1
PreviousMonthStart(t) == DateTime(PrevYear(t), PrevMonth(t), 1)
PreviousMonthEnd(t) ==
    DayEnd(Ymd2Ord(PrevYear(t), PrevMonth(t), DaysInMonth(PrevYear(t), PrevMonth(t))))

\* the change taken relative to the current sum
PercentageChange_OverCurrent(current, previous) ==
    IF current > 0
    THEN [num |-> (current - previous) * 100, den |-> current]
    ELSE [num |-> IF previous > 0 THEN -100 ELSE 0, den |-> 1]

\* the percentage change before rounding, as the fraction num / den, den > 0
PercentageChange(current, previous) ==
    IF previous > 0
    THEN [num |-> (current - previous) * 100, den |-> previous]
    ELSE [num |-> IF current > 0 THEN 100 ELSE 0, den |-> 1]

ChangeDirection(pct) ==
    IF pct.num > 0 THEN "increase"
    ELSE IF pct.num < 0 THEN "decrease"
    ELSE "same"

TotalSpendData(table, t, user) ==
    LET current  == SumInPeriod(table, user, CurrentMonthStart(t), CurrentMonthEnd(t))
        previous == SumInPeriod(table, user, PreviousMonthStart(t), PreviousMonthEnd(t))
        pct      == PercentageChange(current, previous)
    IN  {[current_month     |-> current,
          previous_month    |-> previous,
          percentage_change |-> RoundDiv(pct.num * 100, pct.den),
          change_direction  |-> ChangeDirection(pct)]}

GetTotalSpendDashboard(user) ==
    /\ Idle
    /\ \E d \in TotalSpendData(expenses, now, user) :
          resp' = Ok("total_spend", user, << >>, d)
    /\ UNCHANGED <<expenses, nextId, now, coreVars>>

\* get_category_breakdown_dashboard: <<start_date, end_date>> of the period
BreakdownPeriod(t, period) ==
    IF period = "last_30_days" THEN <<t - Days(30), t>>
    ELSE IF period = "current_year" THEN <<DateTime(YearOf(t), 1, 1), t>>
    ELSE <<CurrentMonthStart(t), CurrentMonthEnd(t)>>

\* the items of the breakdown, sorted by amount descending
BreakdownItems(cats) ==
    LET total == SumSeq([i \in 1..Len(cats) |-> cats[i].total_amount])
        items == [i \in 1..Len(cats) |->
                    [category          |-> cats[i].category,
                     amount            |-> cats[i].total_amount,
                     percentage        |-> Percentage(cats[i].total_amount, total),
                     transaction_count |-> cats[i].count]]
    IN  StableSortDesc(items, [i \in 1..Len(items) |-> items[i].amount])

CategoryBreakdownData(table, t, user, period) ==
    {BreakdownItems(cats) :
        cats \in GetCategoryTotalsInPeriod(table, user, BreakdownPeriod(t, period)[1],
                                           BreakdownPeriod(t, period)[2])}

GetCategoryBreakdownDashboard(user, period) ==
    /\ Idle
    /\ \E d \in CategoryBreakdownData(expenses, now, user, period) :
          resp' = Ok("category_breakdown", user, [period |-> period], d)
    /\ UNCHANGED <<expenses, nextId, now, coreVars>>

\* get_expense_summary: the category summaries, sorted by amount descending;
\* cats are the categories in the order the rows first show them
SummaryCategories(cats, total_amount) ==
    LET items == [i \in 1..Len(cats) |->
                    [category     |-> cats[i].category,
                     total_amount |-> cats[i].total_amount,
                     count        |-> cats[i].count,
                     percentage   |-> Percentage(cats[i].total_amount, total_amount)]]
    IN  StableSortDesc(items, [i \in 1..Len(items) |-> items[i].total_amount])

ExpenseSummaryData(table, user, start_date, end_date) ==
    LET rows == ListInPeriod(table, user, start_date, end_date)
    IN  IF rows = {}
        THEN {[total_amount |-> 0, total_count |-> 0, average_amount |-> 0,
               categories |-> << >>]}
        ELSE {[total_amount   |-> SumAmount(rows),
               total_count    |-> Cardinality(rows),
               average_amount |-> RoundDiv(SumAmount(rows), Cardinality(rows)),
               categories     |-> SummaryCategories(cats, SumAmount(rows))] :
                    cats \in Perms(CategoryGroups(rows))}

GetExpenseSummary(user, start_date, end_date) ==
    /\ Idle
    /\ \E d \in ExpenseSummaryData(expenses, user, start_date, end_date) :
          resp' = Ok("expense_summary", user,
                     [start_date |-> start_date, end_date |-> end_date], d)
    /\ UNCHANGED <<expenses, nextId, now, coreVars>>

\* the month rolled back over one year boundary at most
RollBack_OneYear(year, month) ==
    IF month <= 0 THEN <<year - 1, month + 12>> ELSE <<year, month>>

\* get_category_trend_dashboard: the while loop that rolls the month back
RECURSIVE RollBack(_, _)
RollBack(year, month) ==
    IF month <= 0 THEN RollBack(year - 1, month + 12) ELSE <<year, month>>

\* the start of the window, or None where datetime(...) raises ValueError
CategoryTrendStart(t, months) ==
    LET ym == RollBack(YearOf(t), MonthOf(t) - months)
    IN  IF ValidDate(ym[1], ym[2], 1) THEN Some(DateTime(ym[1], ym[2], 1)) ELSE None

\* month_key = f"{year}-{month:02d}"
MonthKey(year, month) == Pad4(year) \o "-" \o Pad2(month)

\* the months of monthly_data in the order they first appear
RECURSIVE FirstSeen(_)
FirstSeen(seq) ==
    IF seq = << >> THEN << >>
    ELSE LET init == FirstSeen(SubSeq(seq, 1, Len(seq) - 1))
             x    == seq[Len(seq)]
         IN  IF \E i \in 1..Len(init) : init[i] = x THEN init ELSE Append(init, x)

RECURSIVE Concat(_)
Concat(seqs) == IF seqs = << >> THEN << >> ELSE Head(seqs) \o Concat(Tail(seqs))

\* the trend of one monthly_data result: grouped by month, each point with its
\* share of the month, sorted by (month, -amount).  ym orders the points as
\* their month string does and is dropped from the result.
CategoryTrendItems(monthly_data) ==
    LET ym(i)    == monthly_data[i].year * 100 + monthly_data[i].month
        months   == FirstSeen([i \in 1..Len(monthly_data) |-> ym(i)])
        OfMonth(m) == SelectSeq(monthly_data, LAMBDA x : x.year * 100 + x.month = m)
        Total(m) == SumSeq([i \in 1..Len(OfMonth(m)) |-> OfMonth(m)[i].total_amount])
        Points(m) == [i \in 1..Len(OfMonth(m)) |->
                        [month      |-> MonthKey(OfMonth(m)[i].year, OfMonth(m)[i].month),
                         ym         |-> m,
                         category   |-> OfMonth(m)[i].category,
                         amount     |-> OfMonth(m)[i].total_amount,
                         percentage |-> Percentage(OfMonth(m)[i].total_amount,
                                                   Total(m))]]
        trend    == Concat([j \in 1..Len(months) |-> Points(months[j])])
        byAmount == StableSortDesc(trend, [i \in 1..Len(trend) |-> trend[i].amount])
        sorted   == StableSortAsc(byAmount, [i \in 1..Len(byAmount) |-> byAmount[i].ym])
    IN  [i \in 1..Len(sorted) |->
            [month |-> sorted[i].month, category |-> sorted[i].category,
             amount |-> sorted[i].amount, percentage |-> sorted[i].percentage]]

CategoryTrendData(table, t, user, months) ==
    {CategoryTrendItems(md) :
        md \in GetMonthlyCategoryTotals(table, user, CategoryTrendStart(t, months)[1],
                                        CurrentMonthStart(t))}

GetCategoryTrendDashboard(user, months) ==
    /\ Idle
    /\ IF CategoryTrendStart(now, months) = None
       THEN resp' = Raised("category_trend", user, [months |-> months], "ValueError")
       ELSE \E d \in CategoryTrendData(expenses, now, user, months) :
               resp' = Ok("category_trend", user, [months |-> months], d)
    /\ UNCHANGED <<expenses, nextId, now, coreVars>>

\* the start of the window without the floors of 4 weeks and 3 months
SpendTrendStart_NoFloor(t, period, days) ==
    IF period = "daily" THEN t - Days(days)
    ELSE IF period = "weekly" THEN t - Days(7 * (days \div 7))
    ELSE IF period = "monthly" THEN t - Days((days \div 30) * 30)
    ELSE t - Days(30)

\* get_spend_trend_dashboard: the start of the window
SpendTrendStart(t, period, days) ==
    IF period = "daily" THEN t - Days(days)
    ELSE IF period = "weekly" THEN t - Days(7 * Max(days \div 7, 4))
    ELSE IF period = "monthly" THEN t - Days(Max(days \div 30, 3) * 30)
    ELSE t - Days(30)

\* bucket_info with the weekly label built from the calendar year of the row
BucketInfo_CalendarYear(period, dt) ==
    IF period = "weekly"
    THEN LET iso == IsoCalendar(DateOf(dt))
         IN  [key   |-> FromIsoCalendar(iso[1], iso[2], 1),
              label |-> Pad4(YearOf(dt)) \o "-W" \o Pad2(iso[2])]
    ELSE IF period = "monthly"
    THEN [key   |-> Ymd2Ord(YearOf(dt), MonthOf(dt), 1),
          label |-> Pad4(YearOf(dt)) \o "-" \o Pad2(MonthOf(dt))]
    ELSE [key   |-> DateOf(dt),
          label |-> Pad4(YearOf(dt)) \o "-" \o Pad2(MonthOf(dt)) \o "-" \o Pad2(DayOf(dt))]

\* bucket_info(expense_datetime): the bucket key (a date) and its label
BucketInfo(period, dt) ==
    IF period = "weekly"
    THEN LET iso == IsoCalendar(DateOf(dt))
         IN  [key   |-> FromIsoCalendar(iso[1], iso[2], 1),
              label |-> Pad4(iso[1]) \o "-W" \o Pad2(iso[2])]
    ELSE IF period = "monthly"
    THEN [key   |-> Ymd2Ord(YearOf(dt), MonthOf(dt), 1),
          label |-> Pad4(YearOf(dt)) \o "-" \o Pad2(MonthOf(dt))]
    ELSE [key   |-> DateOf(dt),
          label |-> Pad4(YearOf(dt)) \o "-" \o Pad2(MonthOf(dt)) \o "-" \o Pad2(DayOf(dt))]

\* the keys in descending order
RECURSIVE SortedAsc_Descending(_)
SortedAsc_Descending(S) ==
    IF S = {} THEN << >>
    ELSE LET m == CHOOSE x \in S : \A y \in S : x >= y
         IN  <<m>> \o SortedAsc_Descending(S \ {m})

\* sorted(keys)
RECURSIVE SortedAsc(_)
SortedAsc(S) ==
    IF S = {} THEN << >>
    ELSE LET m == CHOOSE x \in S : \A y \in S : x <= y
         IN  <<m>> \o SortedAsc(S \ {m})

SpendTrendData(table, t, user, period, days) ==
    LET start_date == SpendTrendStart(t, period, days)
        rows == {r \in GetExpensesSince(table, user, start_date) :
                    ~(r.date < start_date)}
        keys == SortedAsc({BucketInfo(period, r.date).key : r \in rows})
        In(k) == {r \in rows : BucketInfo(period, r.date).key = k}
    IN  {[i \in 1..Len(keys) |->
            [date   |-> BucketInfo(period, (CHOOSE r \in In(keys[i]) : TRUE).date).label,
             amount |-> SumAmount(In(keys[i])),
             transaction_count |-> Cardinality(In(keys[i]))]]}

GetSpendTrendDashboard(user, period, days) ==
    /\ Idle
    /\ \E d \in SpendTrendData(expenses, now, user, period, days) :
          resp' = Ok("spend_trend", user, [period |-> period, days |-> days], d)
    /\ UNCHANGED <<expenses, nextId, now, coreVars>>

\* get_top_transactions_dashboard: the start of the period, or None where
\* datetime(...) raises ValueError
TopTransactionsStart(t, period) ==
    IF period = "weekly" THEN Some(t - Days(7))
    ELSE IF period = "yearly"
    THEN (IF ValidDate(YearOf(t) - 1, MonthOf(t), DayOf(t))
          THEN Some(DateTime(YearOf(t) - 1, MonthOf(t), DayOf(t))) ELSE None)
    ELSE (IF ValidDate(PrevYear(t), PrevMonth(t), DayOf(t))
          THEN Some(DateTime(PrevYear(t), PrevMonth(t), DayOf(t))) ELSE None)

TopTransactionData(seq) ==
    [i \in 1..Len(seq) |->
        [id |-> seq[i].id, amount |-> seq[i].amount, category |-> seq[i].category,
         merchant |-> seq[i].merchant, description |-> seq[i].description,
         date |-> seq[i].date]]

TopTransactionsData(table, t, user, period, limit) ==
    {TopTransactionData(seq) :
        seq \in GetTopTransactions(table, user, TopTransactionsStart(t, period)[1], limit)}

GetTopTransactionsDashboard(user, period, limit) ==
    /\ Idle
    /\ IF TopTransactionsStart(now, period) = None
       THEN resp' = Raised("top_transactions", user,
                           [period |-> period, limit |-> limit], "ValueError")
       ELSE \E d \in TopTransactionsData(expenses, now, user, period, limit) :
               resp' = Ok("top_transactions", user,
                          [period |-> period, limit |-> limit], d)
    /\ UNCHANGED <<expenses, nextId, now, coreVars>>

\* ExpenseService.get_expense
GetExpense(user, expense_id) ==
    LET found == GetExpenseForUser(expenses, expense_id, user)
    IN  /\ Idle
        /\ resp' = IF found = None
                   THEN Raised("get_expense", user, [id |-> expense_id], "not_found")
                   ELSE Ok("get_expense", user, [id |-> expense_id], ExpenseOut(found[1]))
        /\ UNCHANGED <<expenses, nextId, now, coreVars>>

\* ExpenseService.get_categories_summary
CategoriesSummaryData(table, user) ==
    {SummaryCategories(cats, SumSeq([i \in 1..Len(cats) |-> cats[i].total_amount])) :
        cats \in GetCategoryTotals(table, user)}

GetCategoriesSummary(user) ==
    /\ Idle
    /\ \E d \in CategoriesSummaryData(expenses, user) :
          resp' = Ok("categories_summary", user, << >>, d)
    /\ UNCHANGED <<expenses, nextId, now, coreVars>>

\* ExpenseService.get_recurring_expenses
RecurringExpensesData(table, user) ==
    {[i \in 1..Len(seq) |-> ExpenseOut(seq[i])] :
        seq \in GetRecurringExpensesRows(table, user)}

GetRecurringExpenses(user) ==
    /\ Idle
    /\ \E d \in RecurringExpensesData(expenses, user) :
          resp' = Ok("recurring_expenses", user, << >>, d)
    /\ UNCHANGED <<expenses, nextId, now, coreVars>>

\* ', '.join(tags)
RECURSIVE JoinTags(_)
JoinTags(tags) ==
    IF tags = << >> THEN ""
    ELSE IF Len(tags) = 1 THEN Head(tags)
    ELSE Head(tags) \o ", " \o JoinTags(Tail(tags))

\* value or ''
OrEmpty(col) == IF col = None THEN << >> ELSE col[1]

\* one line of the CSV export
CsvRecord(r) ==
    [id |-> r.id, amount |-> r.amount, currency |-> r.currency,
     category |-> r.category, subcategory |-> OrEmpty(r.subcategory),
     merchant |-> OrEmpty(r.merchant), description |-> OrEmpty(r.description),
     date |-> r.date, payment_method |-> OrEmpty(r.payment_method),
     is_recurring |-> r.is_recurring,
     tags |-> JoinTags(IF r.tags = None \/ JsonLoads(r.tags[1]) = "JSONDecodeError"
                       THEN << >> ELSE JsonLoads(r.tags[1])),
     created_at |-> r.created_at]

\* ', '.join(tags) raising TypeError: the decoded tags are not iterable
JoinRaises(r) == r.tags # None /\ JsonLoads(r.tags[1]) = JsonNull

\* ExpenseService.export_expenses
ExportData(table, user, format, start_date, end_date) ==
    {[i \in 1..Len(seq) |-> IF format = "csv" THEN CsvRecord(seq[i])
                            ELSE ExpenseOut(seq[i])] :
        seq \in ListForExport(table, user, start_date, end_date)}

ExportExpenses(user, format, start_date, end_date) ==
    /\ Idle
    /\ IF /\ format = "csv"
          /\ \E seq \in ListForExport(expenses, user, start_date, end_date) :
                \E i \in 1..Len(seq) : JoinRaises(seq[i])
       THEN resp' = Raised("export_expenses", user,
                           [format |-> format, start_date |-> start_date,
                            end_date |-> end_date], "TypeError")
       ELSE \E d \in ExportData(expenses, user, format, start_date, end_date) :
               resp' = Ok("export_expenses", user,
                          [format |-> format, start_date |-> start_date,
                           end_date |-> end_date], d)
    /\ UNCHANGED <<expenses, nextId, now, coreVars>>

\* a caller of ExpenseRepository.get_category_totals_in_period
CategoryTotalsInPeriodQuery(user, start_date, end_date) ==
    /\ Idle
    /\ \E cats \in GetCategoryTotalsInPeriod(expenses, user, start_date, end_date) :
          resp' = Ok("get_category_totals_in_period", user,
                     [start_date |-> start_date, end_date |-> end_date], cats)
    /\ UNCHANGED <<expenses, nextId, now, coreVars>>

\* a caller of ExpenseRepository.get_monthly_category_totals
MonthlyCategoryTotalsQuery(user, start_date, end_date) ==
    /\ Idle
    /\ \E groups \in GetMonthlyCategoryTotals(expenses, user, start_date, end_date) :
          resp' = Ok("get_monthly_category_totals", user,
                     [start_date |-> start_date, end_date |-> end_date], groups)
    /\ UNCHANGED <<expenses, nextId, now, coreVars>>

\* a caller of ExpenseRepository.sum_in_period
SumInPeriodQuery(user, start_date, end_date) ==
    /\ Idle
    /\ resp' = Ok("sum_in_period", user,
                  [start_date |-> start_date, end_date |-> end_date],
                  SumInPeriod(expenses, user, start_date, end_date))
    /\ UNCHANGED <<expenses, nextId, now, coreVars>>

(***************************************************************************)
(* The application core before any call: no thread is in a call, no        *)
(* manager is constructed, no service is registered, no session is open    *)
(* and the rate limiter has recorded nothing.                              *)
(***************************************************************************)
Threads == 1..MaxThreads

Classes == {"ConfigManager", "DatabaseManager", "ServiceManager"}

NoCall == [op |-> "none"]

CoreIdle ==
    /\ pc = [t \in Threads |-> "idle"]
    /\ local = [t \in Threads |-> NoCall]
    /\ lock = None
    /\ instances = [c \in Classes |-> None]
    /\ objects = << >>
    /\ returned = {}
    /\ services = << >>
    /\ sessions = << >>
    /\ calls = << >>
    /\ limiterLock = None
    /\ clock = 0
    /\ allowed = << >>

(***************************************************************************)
(* Initial state: an empty table; the process runs at one of the instants  *)
(* of Nows.                                                                *)
(***************************************************************************)
InitAt(Nows) ==
    /\ CoreIdle
    /\ expenses = << >>
    /\ nextId = 1
    /\ now \in Nows
    /\ resp = [op |-> "none", user |-> "u1", status |-> "ok"]

\* create / update / delete by the given users with the given inputs, the
\* store assigning at most cap ids
Crud(users, creates, updates, cap) ==
    \/ \E u \in users, d \in creates : nextId <= cap /\ CreateExpense(u, d)
    \/ \E u \in users, i \in 1..cap, upd \in updates : UpdateExpense(u, i, upd)
    \/ \E u \in users, i \in 1..cap : DeleteExpense(u, i)

\* an ExpenseCreate with the optional fields absent
BaseCreate(amount, category, date) ==
    [amount |-> amount, currency |-> "Taka", category |-> category,
     subcategory |-> None, merchant |-> None, description |-> None,
     date |-> date, payment_method |-> None, is_recurring |-> FALSE,
     recurrence_rule |-> None, tags |-> << >>]

(***************************************************************************)
(* The filtered listing: rows that differ in date, category, amount and    *)
(* the three searched columns, listed under every combination of filters.  *)
(***************************************************************************)
D1 == DateTime(2025, 1, 10)
D2 == DateTime(2025, 1, 20)
D3 == DateTime(2025, 1, 30)

FilterCreates ==
    {[BaseCreate(1000, "food", D1) EXCEPT !.description = Some(<<"A", "b">>)],
     [BaseCreate(2000, "rent", D2) EXCEPT !.merchant = Some(<<"b">>)],
     [BaseCreate(1000, "food", D2) EXCEPT !.subcategory = Some(<<"a">>)],
     BaseCreate(0, "rent", D3)}

FilterUpdates == {[amount |-> 3000, date |-> D3]}

Filters ==
    [start_date : {None, Some(D2)}, end_date : {None, Some(D2)},
     category   : {None, Some(""), Some("food")},
     min_amount : {None, Some(1000)}, max_amount : {None, Some(1000)},
     search     : {None, Some(<< >>), Some(<<"B">>), Some(<<"_">>)}]

DefaultLimit == 50

InitFilter == InitAt({D3})

NextFilter ==
    \/ Crud(Users, FilterCreates, FilterUpdates, MaxRows)
    \/ \E f \in Filters : GetExpenses("u1", f, 1, DefaultLimit)
    \/ Consume

SpecFilter == InitFilter /\ [][NextFilter]_vars

\* the fragment occurs in the text, letters compared regardless of case
Contains(text, frag) ==
    \E i \in 1..(Len(text) - Len(frag) + 1) :
        \A j \in 1..Len(frag) : Lower(text[i + j - 1]) = Lower(frag[j])

ContainsOpt(col, frag) == col # None /\ Contains(col[1], frag)

\* the rows the listing is to select for a user under a filter
Selected(table, user, f) ==
    {r \in Rows(table) :
        /\ r.user_id = user
        /\ (f.start_date # None => r.date >= f.start_date[1])
        /\ (f.end_date # None => r.date <= f.end_date[1])
        /\ (f.category \notin {None, Some("")} => r.category = f.category[1])
        /\ (f.min_amount # None => r.amount >= f.min_amount[1])
        /\ (f.max_amount # None => r.amount <= f.max_amount[1])
        /\ (f.search \notin {None, Some(<< >>)} =>
                \/ ContainsOpt(r.description, f.search[1])
                \/ ContainsOpt(r.merchant, f.search[1])
                \/ ContainsOpt(r.subcategory, f.search[1]))}

DataIds(data) == {data[i].id : i \in 1..Len(data)}

\* C2: the listing selects exactly the user's rows that satisfy every supplied
\* predicate (inclusive date and amount bounds, equal category, the search
\* fragment occurring case-insensitively in description, merchant or
\* subcategory), and the reported total is the number of rows so selected.
C2_ListSelectsExactly ==
    resp.op = "get_expenses" =>
        LET sel == Selected(expenses, resp.user, resp.args.filter)
        IN  /\ resp.meta.total = Cardinality(sel)
            /\ DataIds(resp.data) = {r.id : r \in sel}

(***************************************************************************)
(* Pages: up to PageRows rows of one user on two dates, so that several    *)
(* rows share a date, listed page by page.                                 *)
(***************************************************************************)
PageCreates == {BaseCreate(1000, "food", D1), BaseCreate(1000, "food", D2)}

PageUpdates == {[date |-> D2]}

PageFilters ==
    {NoFilter,
     [NoFilter EXCEPT !.category = Some("rent")],
     [NoFilter EXCEPT !.start_date = Some(D2), !.end_date = Some(D1)],
     [NoFilter EXCEPT !.start_date = Some(D2)]}

InitPage == InitAt({D3})

NextPage ==
    \/ Crud(Users, PageCreates, PageUpdates, PageRows)
    \/ \E f \in PageFilters, page \in 1..MaxPage, limit \in 1..MaxLimit :
          GetExpenses("u1", f, page, limit)
    \/ Consume

SpecPage == InitPage /\ [][NextPage]_vars

Min(a, b) == IF a <= b THEN a ELSE b

\* data is the run of n rows from position k + 1 of some newest-date-first
\* ordering of S: its rows are distinct rows of S, and the row at position
\* k + i has fewer than k + i rows of S dated after it and at least k + i
\* rows of S dated on or after it
IsSliceOfNewestFirst(data, S, k) ==
    /\ \A i \in 1..Len(data) : \E r \in S : r.id = data[i].id /\ r.date = data[i].date
    /\ \A i, j \in 1..Len(data) : i # j => data[i].id # data[j].id
    /\ \A i \in 1..Len(data) :
          /\ Cardinality({r \in S : r.date > data[i].date}) < k + i
          /\ Cardinality({r \in S : r.date >= data[i].date}) >= k + i

\* C3: with T matching rows, get_expenses returns the
\* min(limit, max(0, T - (page-1)*limit)) rows from offset (page-1)*limit of the
\* newest-date-first ordering, total = T and pages = ceil(T / limit).
C3_Pagination ==
    (resp.op = "get_expenses" /\ resp.args.page >= 1 /\ resp.args.limit >= 1) =>
        LET S == Selected(expenses, resp.user, resp.args.filter)
            T == Cardinality(S)
            L == resp.args.limit
            k == (resp.args.page - 1) * L
        IN  /\ Len(resp.data) = Min(L, Max(0, T - k))
            /\ IsSliceOfNewestFirst(resp.data, S, k)
            /\ resp.meta.total = T
            /\ resp.meta.pages * L >= T
            /\ (resp.meta.pages - 1) * L < T

\* five matching rows, limit 2: page 3 holds one row and pages = 3
C3_Witness ==
    /\ resp.op = "get_expenses"
    /\ resp.args.limit = 2 /\ resp.args.page = 3
    /\ resp.meta.total = 5 /\ resp.meta.pages = 3
    /\ Len(resp.data) = 1

\* C4: when no row matches, get_expenses returns a success outcome with an
\* empty sequence and total 0, whatever the filters, the page and the limit.
C4_EmptyResultIsSuccess ==
    (resp.op = "get_expenses"
        /\ Selected(expenses, resp.user, resp.args.filter) = {}) =>
            /\ resp.status = "ok"
            /\ resp.data = << >>
            /\ resp.meta.total = 0

\* the user has rows but none matches the filters of a listing of page 2
C4_Witness ==
    /\ resp.op = "get_expenses"
    /\ resp.args.filter # NoFilter
    /\ resp.args.page = 2
    /\ \E r \in Rows(expenses) : r.user_id = resp.user
    /\ Selected(expenses, resp.user, resp.args.filter) = {}
    /\ resp.status = "ok" /\ resp.data = << >> /\ resp.meta.total = 0

(***************************************************************************)
(* Isolation: two users create, update and delete rows, and each reads     *)
(* through every view.                                                     *)
(***************************************************************************)
Dec20 == DateTime(2024, 12, 20)
Jan10 == DateTime(2025, 1, 10)
Jan15 == DateTime(2025, 1, 15)

IsolationCreates ==
    {BaseCreate(1000, "food", Jan10),
     [BaseCreate(2000, "rent", Dec20) EXCEPT !.is_recurring = TRUE]}

IsolationUpdates == {[amount |-> 3000, category |-> "food"]}

InitIsolation == InitAt({Jan15 + 1})

NextIsolation ==
    \/ Crud(Users, IsolationCreates, IsolationUpdates, MaxRows)
    \/ \E u \in Users, f \in {NoFilter, [NoFilter EXCEPT !.category = Some("food")]} :
          GetExpenses(u, f, 1, DefaultLimit)
    \/ \E u \in Users, i \in 1..MaxRows : GetExpense(u, i)
    \/ \E u \in Users : GetCategoriesSummary(u)
    \/ \E u \in Users : GetTotalSpendDashboard(u)
    \/ \E u \in Users : GetCategoryBreakdownDashboard(u, "current_month")
    \/ \E u \in Users : GetCategoryTrendDashboard(u, 6)
    \/ \E u \in Users, period \in {"daily", "monthly"} :
          GetSpendTrendDashboard(u, period, 30)
    \/ \E u \in Users, limit \in 1..MaxLimit :
          GetTopTransactionsDashboard(u, "monthly", limit)
    \/ \E u \in Users : GetRecurringExpenses(u)
    \/ \E u \in Users, format \in {"csv", "json"} : ExportExpenses(u, format, None, None)
    \/ Consume

SpecIsolation == InitIsolation /\ [][NextIsolation]_vars

\* the table without the rows of every other user
OwnTable(table, user) ==
    [i \in {j \in DOMAIN table : table[j].user_id = user} |-> table[i]]

\* the ids of the rows a response lists
ListedIds(r) ==
    IF r.op \in {"get_expenses", "top_transactions", "recurring_expenses",
                 "export_expenses"}
    THEN {r.data[i].id : i \in 1..Len(r.data)}
    ELSE IF r.op = "get_expense" /\ r.status = "ok" THEN {r.data.id}
    ELSE {}

\* what a read may answer on a table
ReadOutcomes(table, t, r) ==
    CASE r.op = "get_expenses" ->
            {[i \in 1..Len(res.expenses) |-> ExpenseToResponse(res.expenses[i])] :
                res \in ListExpenses(table, r.user, r.args.filter, r.args.page,
                                     r.args.limit)}
      [] r.op = "get_expense" ->
            {IF GetExpenseForUser(table, r.args.id, r.user) = None THEN None
             ELSE ExpenseOut(GetExpenseForUser(table, r.args.id, r.user)[1])}
      [] r.op = "categories_summary" -> CategoriesSummaryData(table, r.user)
      [] r.op = "total_spend" -> TotalSpendData(table, t, r.user)
      [] r.op = "category_breakdown" ->
            CategoryBreakdownData(table, t, r.user, r.args.period)
      [] r.op = "category_trend" -> CategoryTrendData(table, t, r.user, r.args.months)
      [] r.op = "spend_trend" ->
            SpendTrendData(table, t, r.user, r.args.period, r.args.days)
      [] r.op = "top_transactions" ->
            TopTransactionsData(table, t, r.user, r.args.period, r.args.limit)
      [] r.op = "recurring_expenses" -> RecurringExpensesData(table, r.user)
      [] r.op = "export_expenses" ->
            ExportData(table, r.user, r.args.format, r.args.start_date,
                       r.args.end_date)

ReadOps ==
    {"get_expenses", "get_expense", "categories_summary", "total_spend",
     "category_breakdown", "category_trend", "spend_trend", "top_transactions",
     "recurring_expenses", "export_expenses"}

\* C1: a read for user A lists only rows of A, and answers what it would answer
\* were the rows of every other user not in the table: no row of B appears in,
\* or contributes to, the result.
C1_OwnerIsolation ==
    resp.op \in ReadOps =>
        /\ \A i \in ListedIds(resp) :
              i \in DOMAIN expenses /\ expenses[i].user_id = resp.user
        /\ resp.data \in ReadOutcomes(OwnTable(expenses, resp.user), now, resp)

\* a user reads a non-empty result while the other user has rows as well
C1_Witness ==
    /\ resp.op \in {"get_expenses", "total_spend", "spend_trend"}
    /\ resp.data # << >>
    /\ \E r \in Rows(expenses) : r.user_id = resp.user
    /\ \E r \in Rows(expenses) : r.user_id # resp.user
    /\ resp.op = "total_spend" => resp.data.current_month > 0

(***************************************************************************)
(* The dashboard views on month ends and on a leap day, under every period *)
(* value, the default branch included.                                     *)
(***************************************************************************)
DashboardNows == {DateTime(2024, 3, 31) + 1, DateTime(2024, 2, 29), Jan15}

DashboardCreates ==
    {BaseCreate(1000, "food", DateTime(2024, 3, 10)),
     BaseCreate(2000, "rent", DateTime(2024, 2, 10)),
     BaseCreate(1000, "rent", Jan10)}

DashboardUpdates == {[amount |-> 3000]}

InitDashboard == InitAt(DashboardNows)

NextDashboard ==
    \/ Crud({"u1"}, DashboardCreates, DashboardUpdates, MaxRows)
    \/ GetTotalSpendDashboard("u1")
    \/ \E period \in {"current_month", "last_30_days", "current_year", "other"} :
          GetCategoryBreakdownDashboard("u1", period)
    \/ \E months \in {1, 6} : GetCategoryTrendDashboard("u1", months)
    \/ \E period \in {"daily", "weekly", "monthly", "other"} :
          GetSpendTrendDashboard("u1", period, 30)
    \/ \E period \in {"weekly", "monthly", "yearly", "other"} :
          GetTopTransactionsDashboard("u1", period, 1)
    \/ Consume

SpecDashboard == InitDashboard /\ [][NextDashboard]_vars

DashboardOps ==
    {"total_spend", "category_breakdown", "category_trend", "spend_trend",
     "top_transactions"}

\* C5: each of the five dashboard views, on any calendar date and under any
\* period value, answers with success, and with empty data when the owner has
\* no row.
C5_DashboardsSucceed ==
    resp.op \in DashboardOps =>
        /\ resp.status = "ok"
        /\ (Rows(expenses) = {} /\ resp.op # "total_spend") => resp.data = << >>

(***************************************************************************)
(* The total spend comparison, called in January and in the March of a     *)
(* leap year, with rows on the first and last instants of the months       *)
(* around the call and rows dated after the call.                          *)
(***************************************************************************)
TotalSpendNows == {Jan15 + 1, DateTime(2024, 3, 15)}

TotalSpendCreates ==
    {BaseCreate(10000, "food", DayEnd(Ymd2Ord(2024, 11, 30))),
     BaseCreate(-5000, "food", DateTime(2024, 12, 1)),
     BaseCreate(20000, "rent", DayEnd(Ymd2Ord(2024, 12, 31))),
     BaseCreate(5000, "food", DateTime(2025, 1, 1)),
     BaseCreate(15000, "food", DateTime(2025, 1, 20)),
     BaseCreate(10000, "food", DayEnd(Ymd2Ord(2025, 1, 31))),
     BaseCreate(10000, "food", DateTime(2025, 2, 1)),
     BaseCreate(10000, "rent", DayEnd(Ymd2Ord(2024, 2, 29))),
     BaseCreate(10000, "food", DateTime(2024, 3, 1)),
     BaseCreate(5000, "food", DayEnd(Ymd2Ord(2024, 3, 31)))}

TotalSpendUpdates == {[amount |-> 1]}

InitTotalSpend == InitAt(TotalSpendNows)

NextTotalSpend ==
    \/ Crud(Users, TotalSpendCreates, TotalSpendUpdates, MaxRows)
    \/ GetTotalSpendDashboard("u1")
    \/ Consume

SpecTotalSpend == InitTotalSpend /\ [][NextTotalSpend]_vars

\* C6: with c and p the current and previous sums, the percentage change is
\* (c - p) / p * 100 rounded to two digits when p > 0, otherwise 100 if c > 0
\* and 0 if not; the direction is increase / decrease / same as that
\* percentage is positive / negative / zero.  (p 0, c 50 gives 100, increase;
\* 100 and 100 gives 0, same; p 200, c 150 gives -25, decrease.)
C6_MonthOverMonth ==
    resp.op = "total_spend" =>
        LET c   == resp.data.current_month
            p   == resp.data.previous_month
            chg == resp.data.percentage_change
            dir == resp.data.change_direction
            err == chg * p - (c - p) * 10000
        IN  /\ p > 0 =>
                  /\ 2 * err <= p /\ 2 * err >= 0 - p
                  /\ dir = (IF c > p THEN "increase"
                            ELSE IF c < p THEN "decrease" ELSE "same")
            /\ (p <= 0 /\ c > 0) => chg = 10000 /\ dir = "increase"
            /\ (p <= 0 /\ c <= 0) => chg = 0 /\ dir = "same"
            /\ (p = 0 /\ c = 5000) => chg = 10000 /\ dir = "increase"
            /\ (p = 10000 /\ c = 10000) => chg = 0 /\ dir = "same"
            /\ (p = 20000 /\ c = 15000) => chg = -2500 /\ dir = "decrease"

\* previous 200, current 150: the comparison answers -25, decrease
C6_Witness ==
    /\ resp.op = "total_spend"
    /\ resp.data.previous_month = 20000
    /\ resp.data.current_month = 15000
    /\ resp.data.percentage_change = -2500
    /\ resp.data.change_direction = "decrease"

\* the rows of a user dated in the calendar month m of year y
RowsOfMonth(table, user, y, m) ==
    {r \in Rows(table) :
        r.user_id = user /\ YearOf(r.date) = y /\ MonthOf(r.date) = m}

\* C7 as stated: the current sum covers the current month to date, the rows
\* dated from the first instant of the current month up to the call time.
C7_CurrentMonthToDate ==
    resp.op = "total_spend" =>
        resp.data.current_month =
            SumAmount({r \in Rows(expenses) :
                /\ r.user_id = resp.user
                /\ r.date >= DateTime(YearOf(now), MonthOf(now), 1)
                /\ r.date <= now})

\* C7 amended: the current sum covers the whole current calendar month, rows
\* dated after the call time included; the previous sum covers the whole
\* preceding calendar month, December of the previous year when called in
\* January; no row is counted in both sums.
C7_WholeCalendarMonths ==
    resp.op = "total_spend" =>
        /\ resp.data.current_month =
              SumAmount(RowsOfMonth(expenses, resp.user, YearOf(now), MonthOf(now)))
        /\ resp.data.previous_month =
              SumAmount(IF MonthOf(now) = 1
                        THEN RowsOfMonth(expenses, resp.user, YearOf(now) - 1, 12)
                        ELSE RowsOfMonth(expenses, resp.user, YearOf(now),
                                         MonthOf(now) - 1))
        /\ ~ \E r \in Rows(expenses) :
                /\ r.date >= CurrentMonthStart(now) /\ r.date <= CurrentMonthEnd(now)
                /\ r.date >= PreviousMonthStart(now) /\ r.date <= PreviousMonthEnd(now)

\* called in January with a row of December and a row dated after the call
C7_Witness ==
    /\ resp.op = "total_spend"
    /\ MonthOf(now) = 1
    /\ \E r \in RowsOfMonth(expenses, "u1", YearOf(now), 1) : r.date > now
    /\ RowsOfMonth(expenses, "u1", YearOf(now) - 1, 12) # {}
    /\ resp.data.current_month > 0
    /\ resp.data.previous_month > 0

(***************************************************************************)
(* The two period aggregates of the repository, asked for the same owner   *)
(* and period, with rows on and just outside both ends of the period.      *)
(***************************************************************************)
Jan20 == DateTime(2025, 1, 20)

PeriodCreates ==
    {BaseCreate(1000, "food", Jan10),
     BaseCreate(3000, "rent", Jan10 - 1),
     BaseCreate(2000, "rent", Jan20),
     BaseCreate(-1000, "food", Jan20),
     BaseCreate(4000, "food", Jan20 + 1)}

PeriodUpdates == {[category |-> "rent"]}

PeriodEnds == {Jan10, Jan20}

InitPeriod == InitAt({Jan15})

NextPeriod ==
    \/ Crud(Users, PeriodCreates, PeriodUpdates, MaxRows)
    \/ \E end_date \in PeriodEnds : CategoryTotalsInPeriodQuery("u1", Jan10, end_date)
    \/ \E end_date \in PeriodEnds : SumInPeriodQuery("u1", Jan10, end_date)
    \/ Consume

SpecPeriod == InitPeriod /\ [][NextPeriod]_vars

\* the rows of a user dated within [start_date, end_date]
RowsInPeriod(table, user, start_date, end_date) ==
    {r \in Rows(table) :
        r.user_id = user /\ start_date <= r.date /\ r.date <= end_date}

\* C8: for one owner and one inclusive period, the per-category totals add up
\* to the period sum and the per-category counts to the number of matching
\* rows; the period sum is exactly 0 when no row matches.
C8_CategoryTotalsMatchPeriodSum ==
    LET matching == RowsInPeriod(expenses, resp.user, resp.args.start_date,
                                 resp.args.end_date)
    IN  /\ resp.op = "get_category_totals_in_period" =>
              /\ SumSeq([i \in 1..Len(resp.data) |-> resp.data[i].total_amount])
                    = SumInPeriod(expenses, resp.user, resp.args.start_date,
                                  resp.args.end_date)
              /\ SumSeq([i \in 1..Len(resp.data) |-> resp.data[i].count])
                    = Cardinality(matching)
        /\ resp.op = "sum_in_period" =>
              /\ matching = {} => resp.data = 0
              /\ \A cats \in GetCategoryTotalsInPeriod(expenses, resp.user,
                        resp.args.start_date, resp.args.end_date) :
                    SumSeq([i \in 1..Len(cats) |-> cats[i].total_amount]) = resp.data

\* two categories match, one of them through a row dated on the end of the period
C8_Witness ==
    /\ resp.op = "get_category_totals_in_period"
    /\ Len(resp.data) = 2
    /\ \E r \in Rows(expenses) : r.user_id = "u1" /\ r.date = resp.args.end_date
    /\ \E r \in Rows(expenses) : r.user_id = "u1" /\ r.date # resp.args.end_date

(***************************************************************************)
(* The three breakdowns with percentages: positive, zero and negative      *)
(* amounts in two categories and two months.                               *)
(***************************************************************************)
BreakdownAmounts == {1000, 2000, 0, -1000}

BreakdownCreates ==
    {BaseCreate(a, c, d) : a \in BreakdownAmounts, c \in {"food", "rent"},
                           d \in {Jan10, Dec20}}

BreakdownUpdates == {[amount |-> -3000]}

InitBreakdown == InitAt({Jan15 + 1})

NextBreakdown ==
    \/ Crud({"u1"}, BreakdownCreates, BreakdownUpdates, MaxRows)
    \/ GetCategoryBreakdownDashboard("u1", "current_month")
    \/ GetExpenseSummary("u1", None, None)
    \/ GetCategoryTrendDashboard("u1", 6)
    \/ Consume

SpecBreakdown == InitBreakdown /\ [][NextBreakdown]_vars

Abs(x) == IF x < 0 THEN 0 - x ELSE x

\* percentages (in hundredths of a percent) of one breakdown with that total
PercentagesAddUp(pcts, total) ==
    IF total # 0
    THEN Abs(SumSeq(pcts) - 10000) <= 10
    ELSE \A i \in 1..Len(pcts) : pcts[i] = 0

\* C9: the percentages of one breakdown (the category breakdown, the expense
\* summary, each month of the category trend) sum to 100 within 0.1 when the
\* grand total is non-zero and are all 0 when it is 0, zero and negative
\* amounts included.
C9_PercentagesSumTo100 ==
    /\ (resp.op = "category_breakdown" /\ resp.data # << >>) =>
          PercentagesAddUp([i \in 1..Len(resp.data) |-> resp.data[i].percentage],
                           SumSeq([i \in 1..Len(resp.data) |-> resp.data[i].amount]))
    /\ (resp.op = "expense_summary" /\ resp.data.categories # << >>) =>
          PercentagesAddUp([i \in 1..Len(resp.data.categories) |->
                               resp.data.categories[i].percentage],
                           resp.data.total_amount)
    /\ resp.op = "category_trend" =>
          \A m \in {resp.data[i].month : i \in 1..Len(resp.data)} :
             LET points == SelectSeq(resp.data, LAMBDA x : x.month = m)
             IN  PercentagesAddUp([i \in 1..Len(points) |-> points[i].percentage],
                                  SumSeq([i \in 1..Len(points) |-> points[i].amount]))

(***************************************************************************)
(* The spend trend under each granularity, with rows on both sides of the  *)
(* ISO week boundaries around two new years (2024-12-30 starts week 1 of   *)
(* 2025; 2021-01-03 ends week 53 of 2020) and rows outside the window.     *)
(***************************************************************************)
SpendTrendNows == {Jan15, DateTime(2021, 1, 15)}

SpendTrendDates ==
    {DateTime(2024, 6, 1), DateTime(2024, 12, 1), DateTime(2024, 12, 29),
     DateTime(2024, 12, 30), DateTime(2025, 1, 5), DateTime(2025, 1, 6),
     DateTime(2020, 12, 28), DateTime(2021, 1, 3), DateTime(2021, 1, 4)}

SpendTrendCreates == {BaseCreate(1000, "food", d) : d \in SpendTrendDates}

SpendTrendUpdates == {[date |-> DateTime(2025, 1, 5)]}

InitSpendTrend == InitAt(SpendTrendNows)

NextSpendTrend ==
    \/ Crud({"u1"}, SpendTrendCreates, SpendTrendUpdates, MaxRows)
    \/ \E period \in {"daily", "weekly", "monthly", "other"}, days \in {7, 30} :
          GetSpendTrendDashboard("u1", period, days)
    \/ Consume

SpecSpendTrend == InitSpendTrend /\ [][NextSpendTrend]_vars

\* the bucket of a calendar date d (an ordinal) as the calendar defines it: the
\* ISO week of d is the Monday-to-Sunday week containing d, numbered within the
\* year its Thursday falls in
CalendarBucket(period, d) ==
    IF period = "weekly"
    THEN LET monday   == d - Weekday(d)
             thursday == monday + 3
             isoYear  == YearOfOrd(thursday)
             isoWeek  == ((thursday - Ymd2Ord(isoYear, 1, 1)) \div 7) + 1
         IN  [key |-> monday, label |-> Pad4(isoYear) \o "-W" \o Pad2(isoWeek)]
    ELSE IF period = "monthly"
    THEN [key   |-> Ymd2Ord(YearOfOrd(d), MonthOfOrd(d), 1),
          label |-> Pad4(YearOfOrd(d)) \o "-" \o Pad2(MonthOfOrd(d))]
    ELSE [key   |-> d,
          label |-> Pad4(YearOfOrd(d)) \o "-" \o Pad2(MonthOfOrd(d)) \o "-"
                    \o Pad2(DayOfOrd(d))]

\* C10: every in-window row is counted in exactly one bucket of the spend
\* trend; the daily bucket is the row's date labelled YYYY-MM-DD, the monthly
\* one the first day of its month labelled YYYY-MM, the weekly one the Monday
\* of its ISO week labelled YYYY-Www with the ISO year and week, so that
\* 2024-12-30 is labelled 2025-W01 and two rows share a weekly bucket exactly
\* when they lie in the same Monday-to-Sunday week.
C10_BucketAssignment ==
    resp.op = "spend_trend" =>
        LET period == resp.args.period
            rows   == {r \in Rows(expenses) :
                         /\ r.user_id = resp.user
                         /\ r.date >= SpendTrendStart(now, period, resp.args.days)}
            B(r)   == CalendarBucket(period, DateOf(r.date))
            Same(r) == {q \in rows : B(q).key = B(r).key}
        IN  /\ \A r \in rows :
                  /\ BucketInfo(period, r.date) = B(r)
                  /\ Cardinality({i \in 1..Len(resp.data) :
                                    resp.data[i].date = B(r).label}) = 1
                  /\ \A i \in 1..Len(resp.data) :
                        resp.data[i].date = B(r).label =>
                           /\ resp.data[i].transaction_count = Cardinality(Same(r))
                           /\ resp.data[i].amount = SumAmount(Same(r))
            /\ Len(resp.data) = Cardinality({B(r).key : r \in rows})
            /\ period = "weekly" =>
                  \A r, q \in rows :
                     (BucketInfo(period, r.date).label = BucketInfo(period, q.date).label)
                        <=> /\ DateOf(q.date) >= DateOf(r.date) - Weekday(DateOf(r.date))
                            /\ DateOf(q.date) <= DateOf(r.date) - Weekday(DateOf(r.date)) + 6
            /\ (period = "weekly" /\ \E r \in rows : r.date = DateTime(2024, 12, 30)) =>
                  \E i \in 1..Len(resp.data) : resp.data[i].date = "2025-W01"

\* rows dated 2024-12-30 and 2025-01-05 share the weekly bucket 2025-W01
C10_Witness ==
    /\ resp.op = "spend_trend"
    /\ resp.args.period = "weekly"
    /\ \E r \in Rows(expenses) : r.date = DateTime(2024, 12, 30)
    /\ \E r \in Rows(expenses) : r.date = DateTime(2025, 1, 5)
    /\ resp.data = <<[date |-> "2025-W01", amount |-> 2000, transaction_count |-> 2]>>

\* the in-window rows of a response of the spend trend
TrendRows(r) ==
    {x \in Rows(expenses) :
        /\ x.user_id = r.user
        /\ x.date >= SpendTrendStart(now, r.args.period, r.args.days)}

\* C11: the series of the spend trend is strictly ascending by bucket key, has
\* no bucket without a row, gives each bucket the sum and the number of its
\* rows, and its counts add up to the number of the owner's rows dated on or
\* after the window start.
C11_SpendTrendSeries ==
    resp.op = "spend_trend" =>
        LET rows    == TrendRows(resp)
            Of(i)   == {x \in rows :
                          BucketInfo(resp.args.period, x.date).label = resp.data[i].date}
            Keys(i) == {BucketInfo(resp.args.period, x.date).key : x \in Of(i)}
        IN  /\ \A i \in 1..Len(resp.data) :
                  /\ Of(i) # {}
                  /\ Cardinality(Keys(i)) = 1
                  /\ resp.data[i].transaction_count = Cardinality(Of(i))
                  /\ resp.data[i].transaction_count >= 1
                  /\ resp.data[i].amount = SumAmount(Of(i))
            /\ \A i, j \in 1..Len(resp.data) :
                  i < j => \A k \in Keys(i), l \in Keys(j) : k < l
            /\ SumSeq([i \in 1..Len(resp.data) |-> resp.data[i].transaction_count])
                  = Cardinality(rows)

\* a weekly series of two buckets on the two sides of a new year
C11_Witness ==
    /\ resp.op = "spend_trend"
    /\ Len(resp.data) = 2
    /\ resp.data[1].date = "2024-W52"
    /\ resp.data[2].date = "2025-W01"

(***************************************************************************)
(* The window of the spend trend: rows dated on the start of each window   *)
(* and one instant before it, for lookbacks below and above the floors.    *)
(***************************************************************************)
WindowLookbacks == {7, 28, 30, 90, 119, 120}

WindowDays == {7, 30, 120}

WindowCreates ==
    {BaseCreate(1000, "food", (Jan15 + 1) - Days(d) - e) :
        d \in WindowLookbacks, e \in {0, 1}}

WindowUpdates == {[date |-> (Jan15 + 1) - Days(28)]}

InitWindow == InitAt({Jan15 + 1})

NextWindow ==
    \/ Crud({"u1"}, WindowCreates, WindowUpdates, MaxRows)
    \/ \E period \in {"daily", "weekly", "monthly", "other"}, days \in WindowDays :
          GetSpendTrendDashboard("u1", period, days)
    \/ Consume

SpecWindow == InitWindow /\ [][NextWindow]_vars

\* the number of days the window of a granularity looks back
LookbackDays(period, days) ==
    CASE period = "daily"   -> days
      [] period = "weekly"  -> 7 * (IF days \div 7 >= 4 THEN days \div 7 ELSE 4)
      [] period = "monthly" -> 30 * (IF days \div 30 >= 3 THEN days \div 30 ELSE 3)
      [] OTHER              -> 30

\* C12: the window starts at now - days (daily), now - max(days div 7, 4)
\* weeks (weekly), now - 30 * max(days div 30, 3) days (monthly); the series
\* counts exactly the rows dated on or after that start, a row dated strictly
\* before it contributing to no bucket.
C12_SpendTrendWindow ==
    resp.op = "spend_trend" =>
        LET start  == now - LookbackDays(resp.args.period, resp.args.days) * TicksPerDay
            inside == {x \in Rows(expenses) : x.user_id = resp.user /\ x.date >= start}
        IN  /\ SumSeq([i \in 1..Len(resp.data) |-> resp.data[i].transaction_count])
                  = Cardinality(inside)
            /\ SumSeq([i \in 1..Len(resp.data) |-> resp.data[i].amount])
                  = SumAmount(inside)
            /\ \A i \in 1..Len(resp.data) :
                  \E x \in inside :
                     BucketInfo(resp.args.period, x.date).label = resp.data[i].date

\* a weekly lookback of 120 days (17 weeks): the row dated on the start is
\* counted, the row one instant before it is not
C12_Witness ==
    /\ resp.op = "spend_trend"
    /\ resp.args.period = "weekly"
    /\ resp.args.days = 120
    /\ \E x \in Rows(expenses) : x.date = now - Days(119)
    /\ \E x \in Rows(expenses) : x.date = now - Days(119) - 1
    /\ Len(resp.data) = 1
    /\ resp.data[1].transaction_count = 1

(***************************************************************************)
(* The top transactions: rows of equal and different amounts inside,       *)
(* before and after the trailing period, asked for in mid month and on a   *)
(* month end.                                                              *)
(***************************************************************************)
TopNows == {Jan15 + 1, DateTime(2024, 3, 31) + 1}

TopCreates ==
    {BaseCreate(8000, "food", Jan10),
     BaseCreate(5000, "food", Jan10),
     BaseCreate(1000, "rent", DateTime(2025, 1, 12)),
     BaseCreate(8000, "rent", DateTime(2024, 12, 1)),
     BaseCreate(9000, "food", Jan20),
     BaseCreate(7000, "food", DateTime(2023, 6, 1)),
     BaseCreate(3000, "food", DateTime(2024, 3, 28))}

TopUpdates == {[amount |-> 5000]}

InitTop == InitAt(TopNows)

NextTop ==
    \/ Crud(Users, TopCreates, TopUpdates, MaxRows)
    \/ \E period \in {"weekly", "monthly", "yearly", "other"}, limit \in 1..MaxLimit :
          GetTopTransactionsDashboard("u1", period, limit)
    \/ Consume

SpecTop == InitTop /\ [][NextTop]_vars

\* the sum of the n largest amounts of the rows S (of all of them if fewer)
RECURSIVE TopSum(_, _)
TopSum(S, n) ==
    IF n = 0 \/ S = {} THEN 0
    ELSE LET m == CHOOSE x \in S : \A y \in S : x.amount >= y.amount
         IN  m.amount + TopSum(S \ {m}, n - 1)

\* the first instant of the trailing week / month / year before the call
TrailingStart(t, period) ==
    IF period = "weekly" THEN t - 7 * TicksPerDay
    ELSE IF period = "yearly" THEN t - 365 * TicksPerDay
    ELSE t - 31 * TicksPerDay

\* C13: for limit N the top transactions are at most N rows of the owner
\* dated within the trailing period before the call, ordered by amount
\* descending, their amounts adding up to the sum of the min(N, rows in the
\* period) largest amounts of the period.
C13_TopTransactions ==
    resp.op = "top_transactions" =>
        LET n      == resp.args.limit
            period == {x \in Rows(expenses) :
                         /\ x.user_id = resp.user
                         /\ x.date <= now
                         /\ x.date >= (IF TopTransactionsStart(now, resp.args.period) # None
                                       THEN TopTransactionsStart(now, resp.args.period)[1]
                                       ELSE TrailingStart(now, resp.args.period))}
        IN  /\ resp.status = "ok"
            /\ Len(resp.data) <= n
            /\ \A i \in 1..Len(resp.data) : \E x \in period : x.id = resp.data[i].id
            /\ \A i, j \in 1..Len(resp.data) :
                  i < j => resp.data[i].amount >= resp.data[j].amount
            /\ SumSeq([i \in 1..Len(resp.data) |-> resp.data[i].amount])
                  = TopSum(period, n)

(***************************************************************************)
(* The monthly category totals over [start, end), with rows on both ends   *)
(* of the period, one instant before them and on both sides of a new year. *)
(***************************************************************************)
Dec10 == DateTime(2024, 12, 10)
Feb1 == DateTime(2025, 2, 1)

MonthlyCreates ==
    {BaseCreate(1000, "food", Dec10),
     BaseCreate(1000, "food", Dec10 - 1),
     BaseCreate(2000, "rent", DayEnd(Ymd2Ord(2024, 12, 31))),
     BaseCreate(3000, "food", DateTime(2025, 1, 1)),
     BaseCreate(1000, "food", Jan20 - 1),
     BaseCreate(4000, "food", Jan20),
     BaseCreate(5000, "rent", Feb1 - 1),
     BaseCreate(6000, "rent", Feb1)}

MonthlyUpdates == {[category |-> "rent"]}

MonthlyEnds == {Jan20, Feb1}

InitMonthly == InitAt({Jan15})

NextMonthly ==
    \/ Crud(Users, MonthlyCreates, MonthlyUpdates, MaxRows)
    \/ \E end_date \in MonthlyEnds : MonthlyCategoryTotalsQuery("u1", Dec10, end_date)
    \/ Consume

SpecMonthly == InitMonthly /\ [][NextMonthly]_vars

\* C14: the monthly category totals cover [start, end): a row dated exactly at
\* end is not counted, and every row of the owner with start <= date < end
\* adds its amount to exactly one (year, month, category) group, the group
\* totals adding up to the sum of these rows.
C14_MonthlyTotalsHalfOpen ==
    resp.op = "get_monthly_category_totals" =>
        LET inside == {x \in Rows(expenses) :
                         /\ x.user_id = resp.user
                         /\ resp.args.start_date <= x.date
                         /\ x.date < resp.args.end_date}
            In(i)  == {x \in inside :
                         /\ YearOf(x.date) = resp.data[i].year
                         /\ MonthOf(x.date) = resp.data[i].month
                         /\ x.category = resp.data[i].category}
        IN  /\ \A x \in inside :
                  Cardinality({i \in 1..Len(resp.data) : x \in In(i)}) = 1
            /\ \A i \in 1..Len(resp.data) :
                  In(i) # {} /\ resp.data[i].total_amount = SumAmount(In(i))
            /\ SumSeq([i \in 1..Len(resp.data) |-> resp.data[i].total_amount])
                  = SumAmount(inside)

\* a row dated exactly at end is left out, a row one instant before it is in
C14_Witness ==
    /\ resp.op = "get_monthly_category_totals"
    /\ \E x \in Rows(expenses) : x.user_id = "u1" /\ x.date = resp.args.end_date
    /\ \E x \in Rows(expenses) : x.user_id = "u1" /\ x.date = resp.args.end_date - 1
    /\ Len(resp.data) = 1

(***************************************************************************)
(* The category trend over windows of 1 to 25 months, called in January    *)
(* and in July, with rows on the first and last instants of the months     *)
(* where the windows start.                                                *)
(***************************************************************************)
TrendNows == {Jan15 + 1, DateTime(2024, 7, 10)}

TrendMonths == {1, 6, 13, 25}

TrendCreates ==
    {BaseCreate(1000, "food", DateTime(2025, 1, 1)),
     BaseCreate(2000, "rent", DayEnd(Ymd2Ord(2024, 12, 31))),
     BaseCreate(1000, "food", DateTime(2024, 12, 1)),
     BaseCreate(3000, "food", DayEnd(Ymd2Ord(2024, 11, 30))),
     BaseCreate(1000, "food", DateTime(2024, 1, 1)),
     BaseCreate(2000, "rent", DayEnd(Ymd2Ord(2023, 12, 31))),
     BaseCreate(4000, "food", DateTime(2023, 12, 1)),
     BaseCreate(1000, "rent", DayEnd(Ymd2Ord(2023, 11, 30))),
     BaseCreate(5000, "food", DateTime(2022, 12, 1)),
     BaseCreate(1000, "food", DayEnd(Ymd2Ord(2022, 11, 30)))}

TrendUpdates == {[category |-> "rent", amount |-> 2000]}

InitTrend == InitAt(TrendNows)

NextTrend ==
    \/ Crud({"u1"}, TrendCreates, TrendUpdates, MaxRows)
    \/ \E months \in TrendMonths : GetCategoryTrendDashboard("u1", months)
    \/ Consume

SpecTrend == InitTrend /\ [][NextTrend]_vars

\* the number of the calendar month of an instant, counted from year 0
MonthIndex(dt) == YearOf(dt) * 12 + (MonthOf(dt) - 1)

\* C15: the category trend of N months reports the monthly category totals of
\* the N calendar months before the current one, whatever number of year
\* boundaries lies between, sorted by month ascending and within a month by
\* amount descending.
C15_CategoryTrendWindow ==
    resp.op = "category_trend" =>
        /\ resp.status = "ok"
        /\ LET inside == {x \in Rows(expenses) :
                            /\ x.user_id = resp.user
                            /\ MonthIndex(x.date) >= MonthIndex(now) - resp.args.months
                            /\ MonthIndex(x.date) < MonthIndex(now)}
               In(i)  == {x \in inside :
                            /\ MonthKey(YearOf(x.date), MonthOf(x.date)) = resp.data[i].month
                            /\ x.category = resp.data[i].category}
               Idx(i) == MonthIndex((CHOOSE x \in In(i) : TRUE).date)
           IN  /\ \A x \in inside :
                     Cardinality({i \in 1..Len(resp.data) : x \in In(i)}) = 1
               /\ \A i \in 1..Len(resp.data) :
                     In(i) # {} /\ resp.data[i].amount = SumAmount(In(i))
               /\ \A i, j \in 1..Len(resp.data) :
                     i < j => \/ Idx(i) < Idx(j)
                              \/ Idx(i) = Idx(j) /\ resp.data[i].amount >= resp.data[j].amount

\* called in January 2025 for 25 months: the window starts in December 2022
C15_Witness ==
    /\ resp.op = "category_trend"
    /\ resp.args.months = 25
    /\ YearOf(now) = 2025
    /\ Len(resp.data) = 2
    /\ resp.data[1].month = "2022-12"
    /\ resp.data[2].month = "2024-12"

(***************************************************************************)
(* The category breakdown under each period, with categories of equal      *)
(* totals and rows on and around the ends of the three periods.            *)
(***************************************************************************)
CategoryCreates ==
    {BaseCreate(1000, "food", Jan10),
     BaseCreate(1000, "rent", Jan10),
     BaseCreate(1000, "fun", Jan10),
     BaseCreate(2000, "food", Jan20),
     BaseCreate(1000, "rent", Dec20),
     BaseCreate(1000, "food", (Jan15 + 1) - Days(30)),
     BaseCreate(1000, "food", (Jan15 + 1) - Days(30) - 1),
     BaseCreate(1000, "rent", DateTime(2025, 1, 1)),
     BaseCreate(3000, "fun", DayEnd(Ymd2Ord(2024, 12, 31)))}

CategoryUpdates == {[category |-> "fun", amount |-> 1000]}

CategoryPeriods == {"current_month", "last_30_days", "current_year", "other"}

InitCategory == InitAt({Jan15 + 1})

NextCategory ==
    \/ Crud({"u1"}, CategoryCreates, CategoryUpdates, MaxRows)
    \/ \E period \in CategoryPeriods : GetCategoryBreakdownDashboard("u1", period)
    \/ Consume

SpecCategory == InitCategory /\ [][NextCategory]_vars

\* the rows of a user in the period of a breakdown asked at t
RowsOfBreakdown(table, t, user, period) ==
    {x \in Rows(table) :
        /\ x.user_id = user
        /\ CASE period = "last_30_days" ->
                   x.date >= t - 30 * TicksPerDay /\ x.date <= t
             [] period = "current_year" ->
                   YearOf(x.date) = YearOf(t) /\ x.date <= t
             [] OTHER ->
                   YearOf(x.date) = YearOf(t) /\ MonthOf(x.date) = MonthOf(t)}

\* the position of a category in a grouping
PositionIn(cats, c) == CHOOSE i \in 1..Len(cats) : cats[i].category = c

\* C16: the category breakdown of a period lists each category with a row in
\* the period exactly once, with the sum and the number of its rows, sorted by
\* amount descending, categories of equal amounts staying in the order the
\* grouping gave them.
C16_CategoryBreakdown ==
    resp.op = "category_breakdown" =>
        LET inside == RowsOfBreakdown(expenses, now, resp.user, resp.args.period)
            Of(c)  == {x \in inside : x.category = c}
            start  == BreakdownPeriod(now, resp.args.period)[1]
            end    == BreakdownPeriod(now, resp.args.period)[2]
        IN  /\ \A x \in inside :
                  Cardinality({i \in 1..Len(resp.data) :
                                 resp.data[i].category = x.category}) = 1
            /\ \A i \in 1..Len(resp.data) :
                  /\ Of(resp.data[i].category) # {}
                  /\ resp.data[i].amount = SumAmount(Of(resp.data[i].category))
                  /\ resp.data[i].transaction_count
                        = Cardinality(Of(resp.data[i].category))
            /\ \A i, j \in 1..Len(resp.data) :
                  i < j => resp.data[i].amount >= resp.data[j].amount
            /\ \A cats \in GetCategoryTotalsInPeriod(expenses, resp.user, start, end) :
                  LET items == BreakdownItems(cats)
                  IN  \A i, j \in 1..Len(items) :
                         (i < j /\ items[i].amount = items[j].amount) =>
                            PositionIn(cats, items[i].category)
                               < PositionIn(cats, items[j].category)

\* two categories of equal totals over the trailing 30 days, one of them
\* through a row dated on the start of the period
C16_Witness ==
    /\ resp.op = "category_breakdown"
    /\ resp.args.period = "last_30_days"
    /\ Len(resp.data) = 2
    /\ resp.data[1].amount = resp.data[2].amount
    /\ \E x \in Rows(expenses) : x.date = now - Days(30)

(***************************************************************************)
(* The write handlers of two users on a store that may fail, with ids that *)
(* were never created, were deleted, or belong to the other user.          *)
(***************************************************************************)
WriteCreates ==
    {[BaseCreate(1000, "food", D1) EXCEPT !.tags = <<"food", "lunch">>,
                                          !.merchant = Some(<<"b">>)]}

WriteUpdates ==
    {[amount |-> 3000],
     [category |-> "rent", tags |-> << >>, merchant |-> None]}

Uploads == {None, Some(<<"r">>)}

InitWrites == InitAt({D3})

NextWrites ==
    \/ \E u \in Users, d \in WriteCreates, store \in StoreOutcomes :
          nextId <= MaxRows /\ CreateExpenseOn(u, d, store)
    \/ \E u \in Users, i \in 1..MaxRows, upd \in WriteUpdates, store \in StoreOutcomes :
          UpdateExpenseOn(u, i, upd, store)
    \/ \E u \in Users, i \in 1..MaxRows, store \in {"ok", "commit_fails"} :
          DeleteExpenseOn(u, i, store)
    \/ \E u \in Users, i \in 1..MaxRows, upload \in Uploads, store \in StoreOutcomes :
          UploadReceipt(u, i, upload, store)
    \/ \E u \in Users, i \in 1..MaxRows : GetExpense(u, i)
    \/ Consume

SpecWrites == InitWrites /\ [][NextWrites]_vars

IdOps == {"get_expense", "update_expense", "delete_expense", "upload_receipt"}

\* no row of that id belongs to the user
Absent(table, id, user) == ~(id \in DOMAIN table /\ table[id].user_id = user)

\* C17: get_expense, update_expense, delete_expense and upload_receipt called
\* with an id that does not exist for the caller (never created, deleted, or
\* of another owner) answer NotFound, with no data, and change no row; they
\* answer NotFound in no other case.
C17_NotFound ==
    [][resp'.op \in IdOps =>
          /\ Absent(expenses, resp'.args.id, resp'.user) =>
                /\ resp'.status = "not_found"
                /\ resp'.data = None
                /\ expenses' = expenses
          /\ resp'.status = "not_found" => Absent(expenses, resp'.args.id, resp'.user)]_vars

\* a call on the id of a row of the other user was answered NotFound
C17_Witness ==
    /\ resp.op \in {"update_expense", "delete_expense", "upload_receipt"}
    /\ resp.status = "not_found"
    /\ resp.args.id \in DOMAIN expenses
    /\ expenses[resp.args.id].user_id # resp.user

\* C18: update_expense changes only the fields supplied in the update: every
\* other field keeps its value, the id, owner and created_at of the row are
\* unchanged, and no other row is changed, added or removed.
C18_PartialUpdate ==
    [][resp'.op = "update_expense" =>
          LET id  == resp'.args.id
              upd == resp'.args.update_data
          IN  /\ DOMAIN expenses' = DOMAIN expenses
              /\ \A j \in DOMAIN expenses : j # id => expenses'[j] = expenses[j]
              /\ id \in DOMAIN expenses =>
                    /\ \A k \in RowFields \ DOMAIN upd :
                          expenses'[id][k] = expenses[id][k]
                    /\ expenses'[id].id = expenses[id].id
                    /\ expenses'[id].user_id = expenses[id].user_id
                    /\ expenses'[id].created_at = expenses[id].created_at
              /\ resp'.status = "ok" =>
                    \A k \in DOMAIN upd \ {"tags"} : expenses'[id][k] = upd[k]]_vars

\* an update of the amount alone on a row that has tags and a merchant, next
\* to another row
C18_Witness ==
    /\ resp.op = "update_expense"
    /\ resp.status = "ok"
    /\ resp.args.update_data = [amount |-> 3000]
    /\ expenses[resp.args.id].amount = 3000
    /\ expenses[resp.args.id].tags # None
    /\ expenses[resp.args.id].merchant # None
    /\ Cardinality(DOMAIN expenses) = 2

\* C19: when the store fails during create_expense, update_expense,
\* delete_expense or upload_receipt, the call reports a failure and the
\* persisted rows are exactly what they were before the call.
C19_FailureChangesNothing ==
    [][(resp'.op \in {"create_expense", "update_expense", "delete_expense",
                      "upload_receipt"}
        /\ resp'.status = "failed") => expenses' = expenses]_vars

(***************************************************************************)
(* Tags written and read back: rows created and updated with tag           *)
(* sequences of different lengths and orders, each under a category that   *)
(* names its tags, then listed and exported in the structured format.      *)
(***************************************************************************)
TagCategories == {"none", "food", "food-lunch", "lunch-food"}

\* the tag sequence a category of TagCategories names
TagsNamed(c) ==
    CASE c = "food"       -> <<"food">>
      [] c = "food-lunch" -> <<"food", "lunch">>
      [] c = "lunch-food" -> <<"lunch", "food">>
      [] OTHER            -> << >>

TagCreates ==
    {[BaseCreate(1000, c, D1) EXCEPT !.tags = TagsNamed(c)] : c \in TagCategories}

TagUpdates == {[category |-> c, tags |-> TagsNamed(c)] : c \in TagCategories}

InitTags == InitAt({D3})

NextTags ==
    \/ Crud({"u1"}, TagCreates, TagUpdates, MaxRows)
    \/ GetExpenses("u1", NoFilter, 1, DefaultLimit)
    \/ ExportExpenses("u1", "json", None, None)
    \/ Consume

SpecTags == InitTags /\ [][NextTags]_vars

\* C20: the listing and the structured export give back the tags of every
\* row as the sequence last written to it by create_expense or
\* update_expense, in the same order, and as the empty sequence (not null)
\* when the tags written were empty.
C20_TagRoundTrip ==
    resp.op \in {"get_expenses", "export_expenses"} =>
        \A i \in 1..Len(resp.data) :
            resp.data[i].tags = TagsNamed(resp.data[i].category)

\* a listing of a row with tags food, lunch and a row without tags
C20_Witness ==
    /\ resp.op = "get_expenses"
    /\ \E i \in 1..Len(resp.data) : resp.data[i].tags = <<"food", "lunch">>
    /\ \E i \in 1..Len(resp.data) :
          resp.data[i].tags = << >> /\ expenses[resp.data[i].id].tags = None

(***************************************************************************)
(* Stored tags that are not a tag list.  The tags column is free text in   *)
(* the store; the table starts with rows whose tags text was left there by *)
(* another writer: not JSON at all, a list cut short, the JSON literal     *)
(* null, and a well-formed list for comparison.                            *)
(***************************************************************************)
StoredTags ==
    {<<"food">>, <<"[", "food">>, <<"null">>, JsonDumps(<<"food">>)}

DecodeUpdates == {[tags |-> <<"lunch">>], [tags |-> << >>]}

InitDecode ==
    /\ CoreIdle
    /\ expenses \in
         {[i \in 1..MaxRows |->
             [NewRow(i, "u1", BaseCreate(1000, "food", D1 + Days(i)), D3)
                 EXCEPT !.tags = Some(txt[i])]] :
            txt \in [1..MaxRows -> StoredTags]}
    /\ nextId = MaxRows + 1
    /\ now = D3
    /\ resp = [op |-> "none", user |-> "u1", status |-> "ok"]

NextDecode ==
    \/ \E i \in 1..MaxRows, upd \in DecodeUpdates : UpdateExpense("u1", i, upd)
    \/ GetExpenses("u1", NoFilter, 1, DefaultLimit)
    \/ \E fmt \in {"csv", "json"} : ExportExpenses("u1", fmt, None, None)
    \/ Consume

SpecDecode == InitDecode /\ [][NextDecode]_vars

\* the stored tags of the row are text that json.loads rejects
NotJson(r) == r.tags # None /\ JsonLoads(r.tags[1]) = "JSONDecodeError"

\* the stored tags of the row do not decode into a sequence of tags
Undecodable(r) == NotJson(r) \/ (r.tags # None /\ JsonLoads(r.tags[1]) = JsonNull)

\* C21: the listing and the export succeed and render every row, a row
\* whose stored tags do not decode into a tag sequence with empty tags.
C21_DecodeFailureRecovered ==
    resp.op \in {"get_expenses", "export_expenses"} =>
        /\ resp.status = "ok"
        /\ Len(resp.data) = Cardinality(DOMAIN expenses)
        /\ \A i \in 1..Len(resp.data) :
              Undecodable(expenses[resp.data[i].id]) =>
                  IF resp.op = "export_expenses" /\ resp.args.format = "csv"
                  THEN resp.data[i].tags = ""
                  ELSE << >> = resp.data[i].tags

(***************************************************************************)
(* The export: rows of two users on three dates, with and without their    *)
(* optional fields, exported in both formats over open and closed ranges   *)
(* whose ends fall on the dates of rows.                                   *)
(***************************************************************************)
ExportCreates ==
    {BaseCreate(1000, "food", D1), BaseCreate(3000, "food", D3),
     [BaseCreate(2000, "rent", D2) EXCEPT
         !.subcategory = Some(<<"s">>), !.merchant = Some(<<"m">>),
         !.description = Some(<<"d">>), !.payment_method = Some("cash"),
         !.tags = <<"food", "lunch">>]}

ExportUpdates == {[date |-> D1]}

ExportRanges ==
    {<<None, None>>, <<Some(D1), Some(D2)>>, <<Some(D2), None>>, <<None, Some(D2)>>}

InitExport == InitAt({D3})

NextExport ==
    \/ Crud(Users, ExportCreates, ExportUpdates, MaxRows)
    \/ \E u \in Users, fmt \in {"csv", "json"}, rg \in ExportRanges :
          ExportExpenses(u, fmt, rg[1], rg[2])
    \/ Consume

SpecExport == InitExport /\ [][NextExport]_vars

\* the ids of the rows of the user dated within the range, ends included
IdsInRange(table, user, start_date, end_date) ==
    {i \in DOMAIN table :
        /\ table[i].user_id = user
        /\ (start_date # None => table[i].date >= start_date[1])
        /\ (end_date # None => table[i].date <= end_date[1])}

OptionalColumns == {"subcategory", "merchant", "description", "payment_method"}

MaxObjects == 2
MaxSetups == 2

\* the ledger while only the core runs
LedgerIdle ==
    /\ expenses = << >>
    /\ nextId = 1
    /\ now = D3
    /\ resp = [op |-> "none", user |-> "u1", status |-> "ok"]

\* cls(...) or cls.get_instance(), which is cls(): the call begins
Call(t, cls) ==
    /\ pc[t] = "idle"
    /\ pc' = [pc EXCEPT ![t] = "acquire"]
    /\ local' = [local EXCEPT ![t] = [op |-> "call", cls |-> cls, instance |-> None]]
    /\ UNCHANGED <<ledgerVars, singletonVars, services, sessions, limiterVars>>

\* __call__ entering its block without taking the lock
Acquire_NoLock(t) ==
    /\ pc[t] = "acquire"
    /\ pc' = [pc EXCEPT ![t] = "check"]
    /\ UNCHANGED <<ledgerVars, local, singletonVars, services, sessions, limiterVars>>

\* with cls._lock:  (blocks while another thread holds the lock)
Acquire(t) ==
    /\ pc[t] = "acquire"
    /\ lock = None
    /\ lock' = Some(t)
    /\ pc' = [pc EXCEPT ![t] = "check"]
    /\ UNCHANGED <<ledgerVars, local, instances, objects, returned, services,
                   sessions, limiterVars>>

\* if cls not in cls._instances:
Check(t) ==
    /\ pc[t] = "check"
    /\ pc' = [pc EXCEPT ![t] = IF instances[local[t].cls] = None THEN "new"
                               ELSE "release"]
    /\ UNCHANGED <<ledgerVars, local, singletonVars, services, sessions, limiterVars>>

\* super().__call__(): a new object, and Singleton.__init__ up to _setup
\* (a new object has no _initialized, so __init__ sets it)
New(t) ==
    /\ pc[t] = "new"
    /\ objects' = Append(objects, [cls |-> local[t].cls, initialized |-> TRUE,
                                   setups |-> 0])
    /\ local' = [local EXCEPT ![t].instance = Some(Len(objects) + 1)]
    /\ pc' = [pc EXCEPT ![t] = "setup"]
    /\ UNCHANGED <<ledgerVars, lock, instances, returned, services, sessions,
                   limiterVars>>

\* self._setup() inside __init__; when it raises, the exception leaves the
\* with block, which releases the lock, and the call ends without a result
Setup(t, raises) ==
    /\ pc[t] = "setup"
    /\ raises => Len(objects) < MaxObjects
    /\ objects' = [objects EXCEPT ![local[t].instance[1]].setups = @ + 1]
    /\ IF raises
       THEN /\ lock' = None
            /\ pc' = [pc EXCEPT ![t] = "idle"]
            /\ local' = [local EXCEPT ![t] = NoCall]
       ELSE /\ pc' = [pc EXCEPT ![t] = "store"]
            /\ UNCHANGED <<lock, local>>
    /\ UNCHANGED <<ledgerVars, instances, returned, services, sessions, limiterVars>>

\* cls._instances[cls] = instance
Store(t) ==
    /\ pc[t] = "store"
    /\ instances' = [instances EXCEPT ![local[t].cls] = local[t].instance]
    /\ pc' = [pc EXCEPT ![t] = "release"]
    /\ UNCHANGED <<ledgerVars, local, lock, objects, returned, services, sessions,
                   limiterVars>>

\* the end of the with block
Release(t) ==
    /\ pc[t] = "release"
    /\ lock' = None
    /\ pc' = [pc EXCEPT ![t] = "return"]
    /\ UNCHANGED <<ledgerVars, local, instances, objects, returned, services,
                   sessions, limiterVars>>

\* return cls._instances[cls]
Return(t) ==
    /\ pc[t] = "return"
    /\ returned' = returned \cup {<<local[t].cls, instances[local[t].cls][1]>>}
    /\ pc' = [pc EXCEPT ![t] = "idle"]
    /\ local' = [local EXCEPT ![t] = NoCall]
    /\ UNCHANGED <<ledgerVars, lock, instances, objects, services, sessions,
                   limiterVars>>

\* instance.reset() on an instance some call returned:
\* if hasattr(self, '_initialized'): delattr(self, '_initialized')
Reset(t, obj) ==
    /\ pc[t] = "idle"
    /\ \E c \in Classes : <<c, obj>> \in returned
    /\ objects[obj].setups < MaxSetups
    /\ objects' = [objects EXCEPT ![obj].initialized = FALSE]
    /\ pc' = [pc EXCEPT ![t] = "reset_setup"]
    /\ local' = [local EXCEPT ![t] = [op |-> "reset", instance |-> Some(obj)]]
    /\ UNCHANGED <<ledgerVars, lock, instances, returned, services, sessions,
                   limiterVars>>

\* the self._setup() that ends reset
ResetSetup(t) ==
    /\ pc[t] = "reset_setup"
    /\ objects' = [objects EXCEPT ![local[t].instance[1]].setups = @ + 1]
    /\ pc' = [pc EXCEPT ![t] = "idle"]
    /\ local' = [local EXCEPT ![t] = NoCall]
    /\ UNCHANGED <<ledgerVars, lock, instances, returned, services, sessions,
                   limiterVars>>

(***************************************************************************)
(* Constructor calls of the three managers from every thread, in every     *)
(* interleaving, some of them with a _setup that raises.                   *)
(***************************************************************************)
InitSingleton == LedgerIdle /\ CoreIdle

NextSingleton ==
    \/ \E t \in Threads, c \in Classes : Call(t, c)
    \/ \E t \in Threads : Acquire(t)
    \/ \E t \in Threads : Check(t)
    \/ \E t \in Threads : New(t)
    \/ \E t \in Threads, raises \in BOOLEAN : Setup(t, raises)
    \/ \E t \in Threads : Store(t)
    \/ \E t \in Threads : Release(t)
    \/ \E t \in Threads : Return(t)

SpecSingleton == InitSingleton /\ [][NextSingleton]_vars

\* C23: all calls that return for one class return one and the same object,
\* an object of that class, and calls for different classes return
\* different objects.
C23_SingletonUniqueness ==
    \A x \in returned, y \in returned :
        /\ objects[x[2]].cls = x[1]
        /\ (x[1] = y[1]) <=> (x[2] = y[2])

\* both threads are about to return from calls for the same class, after
\* each of the three classes has returned an instance
C23_Witness ==
    /\ \A c \in Classes : \E x \in returned : x[1] = c
    /\ \E t1 \in Threads, t2 \in Threads :
          /\ t1 # t2
          /\ pc[t1] = "return" /\ pc[t2] = "return"
          /\ local[t1].cls = local[t2].cls

(***************************************************************************)
(* Constructor calls and resets of two of the managers, interleaved.       *)
(***************************************************************************)
SetupClasses == {"ConfigManager", "ServiceManager"}

InitSetup == LedgerIdle /\ CoreIdle

NextSetup ==
    \/ \E t \in Threads, c \in SetupClasses : Call(t, c)
    \/ \E t \in Threads : Acquire(t)
    \/ \E t \in Threads : Check(t)
    \/ \E t \in Threads : New(t)
    \/ \E t \in Threads, raises \in BOOLEAN : Setup(t, raises)
    \/ \E t \in Threads : Store(t)
    \/ \E t \in Threads : Release(t)
    \/ \E t \in Threads : Return(t)
    \/ \E t \in Threads, obj \in 1..Len(objects) : Reset(t, obj)
    \/ \E t \in Threads : ResetSetup(t)

SpecSetup == InitSetup /\ [][NextSetup]_vars

\* the threads that are inside the with block of __call__
InBlock == {t \in Threads : pc[t] \in {"check", "new", "setup", "store", "release"}}

\* C28: the _setup of an object never runs a second time, and has run once
\* for every registered instance; the lock is held only by a thread inside
\* the with block, and an object whose _setup raised is not registered.
C28_SingleInitialisation ==
    /\ \A o \in 1..Len(objects) : objects[o].setups <= 1
    /\ \A c \in Classes :
          instances[c] # None => objects[instances[c][1]].setups = 1
    /\ \A t \in Threads : lock = Some(t) => t \in InBlock

(***************************************************************************)
(* ServiceManager (backend/app/core/service_manager.py): the registry      *)
(* _services, a dict from names to services.  A method of one statement    *)
(* is one step; unregister_service is two, its test and its del.  A call   *)
(* that has ended keeps its result in local until the thread takes it.     *)
(***************************************************************************)
CoreServices == [n \in {"config", "database"} |->
                    IF n = "config" THEN "config_manager" ELSE "db_manager"]

\* the call returns the result
Done(t, op, name, result) ==
    /\ pc' = [pc EXCEPT ![t] = "done"]
    /\ local' = [local EXCEPT ![t] = [op |-> op, name |-> name, status |-> "ok",
                                      result |-> result]]

\* the call ends with an exception
DoneRaising(t, op, name, what) ==
    /\ pc' = [pc EXCEPT ![t] = "done"]
    /\ local' = [local EXCEPT ![t] = [op |-> op, name |-> name, status |-> what]]

\* the caller goes on after a call
Ack(t) ==
    /\ pc[t] = "done"
    /\ pc' = [pc EXCEPT ![t] = "idle"]
    /\ local' = [local EXCEPT ![t] = NoCall]
    /\ UNCHANGED <<ledgerVars, singletonVars, services, sessions, limiterVars>>

\* register_service that keeps an existing registration of the name
RegisterService_KeepFirst(t, name, service) ==
    /\ pc[t] = "idle"
    /\ services' = IF name \in DOMAIN services THEN services
                   ELSE [n \in DOMAIN services \cup {name} |->
                           IF n = name THEN service ELSE services[n]]
    /\ Done(t, "register_service", name, service)
    /\ UNCHANGED <<ledgerVars, singletonVars, sessions, limiterVars>>

\* self._services[name] = service
RegisterService(t, name, service) ==
    /\ pc[t] = "idle"
    /\ services' = [n \in DOMAIN services \cup {name} |->
                      IF n = name THEN service ELSE services[n]]
    /\ Done(t, "register_service", name, service)
    /\ UNCHANGED <<ledgerVars, singletonVars, sessions, limiterVars>>

\* return self._services.get(name)
GetService(t, name) ==
    /\ pc[t] = "idle"
    /\ Done(t, "get_service", name,
            IF name \in DOMAIN services THEN Some(services[name]) ELSE None)
    /\ UNCHANGED <<ledgerVars, singletonVars, services, sessions, limiterVars>>

\* return name in self._services
HasService(t, name) ==
    /\ pc[t] = "idle"
    /\ Done(t, "has_service", name, name \in DOMAIN services)
    /\ UNCHANGED <<ledgerVars, singletonVars, services, sessions, limiterVars>>

\* return list(self._services.keys()), as the set of its elements
ListServices(t) ==
    /\ pc[t] = "idle"
    /\ Done(t, "list_services", "", DOMAIN services)
    /\ UNCHANGED <<ledgerVars, singletonVars, services, sessions, limiterVars>>

\* unregister_service: if name in self._services:  ... else return False
UnregisterCheck(t, name) ==
    /\ pc[t] = "idle"
    /\ IF name \in DOMAIN services
       THEN /\ pc' = [pc EXCEPT ![t] = "del"]
            /\ local' = [local EXCEPT ![t] = [op |-> "unregister_service",
                                              name |-> name]]
       ELSE Done(t, "unregister_service", name, FALSE)
    /\ UNCHANGED <<ledgerVars, singletonVars, services, sessions, limiterVars>>

\* unregister_service: del self._services[name]; return True
\* (del raises KeyError when the name is no longer a key)
UnregisterDel(t) ==
    /\ pc[t] = "del"
    /\ IF local[t].name \in DOMAIN services
       THEN /\ services' = [n \in DOMAIN services \ {local[t].name} |-> services[n]]
            /\ Done(t, "unregister_service", local[t].name, TRUE)
       ELSE /\ DoneRaising(t, "unregister_service", local[t].name, "KeyError")
            /\ UNCHANGED services
    /\ UNCHANGED <<ledgerVars, singletonVars, sessions, limiterVars>>

(***************************************************************************)
(* The registry used by one caller: after initialisation, registrations    *)
(* and unregistrations of names other than the core ones, and reads of     *)
(* every name.                                                             *)
(***************************************************************************)
OtherNames == {"cache", "mail", "auth"}

ServiceValues == {"s1", "s2"}

InitRegistry ==
    /\ LedgerIdle
    /\ pc = [t \in Threads |-> "idle"]
    /\ local = [t \in Threads |-> NoCall]
    /\ lock = None /\ instances = [c \in Classes |-> None]
    /\ objects = << >> /\ returned = {}
    /\ services = CoreServices
    /\ sessions = << >>
    /\ calls = << >> /\ limiterLock = None /\ clock = 0 /\ allowed = << >>

NextRegistry ==
    \/ \E n \in OtherNames, v \in ServiceValues : RegisterService(1, n, v)
    \/ \E n \in OtherNames \cup DOMAIN CoreServices : GetService(1, n)
    \/ \E n \in OtherNames \cup DOMAIN CoreServices : HasService(1, n)
    \/ ListServices(1)
    \/ \E n \in OtherNames : UnregisterCheck(1, n)
    \/ UnregisterDel(1)
    \/ Ack(1)

SpecRegistry == InitRegistry /\ [][NextRegistry]_vars

\* C24: a registration makes the name registered with the service given,
\* replacing an earlier one; get_service, has_service and list_services
\* answer what is registered (None and False for a name that is not);
\* unregister_service answers True exactly when the name was registered
\* and leaves it unregistered; config and database stay registered.
C24_ServiceRegistry ==
    [][ /\ {"config", "database"} \subseteq DOMAIN services'
        /\ pc'[1] = "done" =>
             LET op  == local'[1].op
                 n   == local'[1].name
                 res == local'[1].result
             IN  /\ local'[1].status = "ok"
                 /\ op = "register_service" =>
                       n \in DOMAIN services' /\ services'[n] = res
                 /\ op = "get_service" =>
                       res = IF n \in DOMAIN services THEN Some(services[n]) ELSE None
                 /\ op = "has_service" => res = (n \in DOMAIN services)
                 /\ op = "list_services" => res = DOMAIN services
                 /\ op = "unregister_service" =>
                       /\ res = (n \in DOMAIN services)
                       /\ n \notin DOMAIN services' ]_vars

\* cache was registered with s1 and then with s2, and get_service answers s2
C24_Witness ==
    /\ pc[1] = "done"
    /\ local[1].op = "get_service"
    /\ local[1].name = "cache"
    /\ local[1].result = Some("s2")
    /\ "mail" \notin DOMAIN services

(***************************************************************************)
(* Threads that each call unregister_service once, for one of the names    *)
(* registered at the start.                                                *)
(***************************************************************************)
UnregisterNames == {"cache", "mail", "auth", "queue", "search"}

InitUnregister ==
    /\ LedgerIdle
    /\ pc = [t \in Threads |-> "idle"]
    /\ local = [t \in Threads |-> NoCall]
    /\ lock = None /\ instances = [c \in Classes |-> None]
    /\ objects = << >> /\ returned = {}
    /\ services = [n \in DOMAIN CoreServices \cup UnregisterNames |->
                     IF n \in DOMAIN CoreServices THEN CoreServices[n] ELSE "s1"]
    /\ sessions = << >>
    /\ calls = << >> /\ limiterLock = None /\ clock = 0 /\ allowed = << >>

NextUnregister ==
    \/ \E t \in Threads, n \in UnregisterNames : UnregisterCheck(t, n)
    \/ \E t \in Threads : UnregisterDel(t)

SpecUnregister == InitUnregister /\ [][NextUnregister]_vars

\* the threads whose call for the name has returned the result
Answered(n, result) ==
    {t \in Threads : /\ pc[t] = "done"
                     /\ local[t].name = n
                     /\ local[t].status = "ok"
                     /\ local[t].result = result}

\* C29: no call of unregister_service raises; of the calls for one name at
\* most one answers True, and once every thread has called for the same
\* name exactly one has answered True and the others False.
C29_ConcurrentUnregister ==
    /\ \A t \in Threads : pc[t] = "done" => local[t].status = "ok"
    /\ \A n \in UnregisterNames :
          /\ Cardinality(Answered(n, TRUE)) <= 1
          /\ (\A t \in Threads : pc[t] = "done" /\ local[t].name = n) =>
                /\ Cardinality(Answered(n, TRUE)) = 1
                /\ Cardinality(Answered(n, FALSE)) = MaxThreads - 1

(***************************************************************************)
(* Store sessions (backend/app/core/database_manager.py).  A request runs  *)
(* on a thread; get_db (which get_database_session delegates to) and       *)
(* get_db_context open a session, hand it to the handler or the body, and  *)
(* finish it when that returns or raises.  A session is [owner, log]: the  *)
(* thread it was opened for and the calls made on it.                      *)
(***************************************************************************)
MaxSessions == 3

SessionOps == {"get_db", "get_db_context"}

\* get_session handing out a session that is already open, when there is one
OpenSession_Shared(t, via) ==
    /\ pc[t] = "idle"
    /\ Len(sessions) < MaxSessions
    /\ LET open == {i \in 1..Len(sessions) :
                      \A k \in 1..Len(sessions[i].log) : sessions[i].log[k] # "close"}
       IN  IF open = {}
           THEN /\ sessions' = Append(sessions, [owner |-> t, log |-> << >>])
                /\ local' = [local EXCEPT ![t] = [op |-> via, session |-> Len(sessions) + 1,
                                                  raised |-> FALSE]]
           ELSE /\ \E i \in open :
                      local' = [local EXCEPT ![t] = [op |-> via, session |-> i,
                                                     raised |-> FALSE]]
                /\ UNCHANGED sessions
    /\ pc' = [pc EXCEPT ![t] = "body"]
    /\ UNCHANGED <<ledgerVars, singletonVars, services, limiterVars>>

\* session = self.get_session(): session_factory() makes a new session;
\* then yield session
OpenSession(t, via) ==
    /\ pc[t] = "idle"
    /\ Len(sessions) < MaxSessions
    /\ sessions' = Append(sessions, [owner |-> t, log |-> << >>])
    /\ local' = [local EXCEPT ![t] = [op |-> via, session |-> Len(sessions) + 1,
                                      raised |-> FALSE]]
    /\ pc' = [pc EXCEPT ![t] = "body"]
    /\ UNCHANGED <<ledgerVars, singletonVars, services, limiterVars>>

\* the handler (get_db) or the with body (get_db_context) returns or raises,
\* and the generator goes on after its yield
BodyEnds(t, raises) ==
    /\ pc[t] = "body"
    /\ local' = [local EXCEPT ![t].raised = raises]
    /\ pc' = [pc EXCEPT ![t] =
                IF local[t].op = "get_db" THEN "close"
                ELSE IF raises THEN "rollback" ELSE "commit"]
    /\ UNCHANGED <<ledgerVars, singletonVars, services, sessions, limiterVars>>

\* session.commit(), which may itself raise and is then handled as the
\* body's exception is
Commit(t, fails) ==
    /\ pc[t] = "commit"
    /\ sessions' = [sessions EXCEPT ![local[t].session].log = Append(@, "commit")]
    /\ pc' = [pc EXCEPT ![t] = IF fails THEN "rollback" ELSE "close"]
    /\ UNCHANGED <<ledgerVars, local, singletonVars, services, limiterVars>>

\* except Exception: session.rollback(); raise
Rollback(t) ==
    /\ pc[t] = "rollback"
    /\ sessions' = [sessions EXCEPT ![local[t].session].log = Append(@, "rollback")]
    /\ pc' = [pc EXCEPT ![t] = "close"]
    /\ UNCHANGED <<ledgerVars, local, singletonVars, services, limiterVars>>

\* finally: session.close(); the request is complete
Close(t) ==
    /\ pc[t] = "close"
    /\ sessions' = [sessions EXCEPT ![local[t].session].log = Append(@, "close")]
    /\ pc' = [pc EXCEPT ![t] = "done"]
    /\ UNCHANGED <<ledgerVars, local, singletonVars, services, limiterVars>>

(***************************************************************************)
(* Concurrent requests, each with its own session, whose handlers return   *)
(* or raise and whose commits succeed or fail.                             *)
(***************************************************************************)
InitSession == LedgerIdle /\ CoreIdle

NextSession ==
    \/ \E t \in Threads, via \in SessionOps : OpenSession(t, via)
    \/ \E t \in Threads, raises \in BOOLEAN : BodyEnds(t, raises)
    \/ \E t \in Threads, fails \in BOOLEAN : Commit(t, fails)
    \/ \E t \in Threads : Rollback(t)
    \/ \E t \in Threads : Close(t)
    \/ \E t \in Threads : Ack(t)

SpecSession == InitSession /\ [][NextSession]_vars

\* the threads whose request is under way (its session handed out, the
\* request not complete)
InRequest == {t \in Threads : pc[t] \in {"body", "commit", "rollback", "close"}}

\* C25: a session in use by a request is in use by no other request and is
\* not closed; when a request is complete its session has been closed, as
\* the last call on it and once; with get_db_context the session was
\* committed before that if the body returned, and rolled back, not
\* committed, if the body raised.
C25_SessionPerRequest ==
    /\ \A t \in InRequest :
          /\ \A u \in InRequest \ {t} : local[u].session # local[t].session
          /\ sessions[local[t].session].owner = t
          /\ \A k \in 1..Len(sessions[local[t].session].log) :
                sessions[local[t].session].log[k] # "close"
    /\ \A t \in Threads : pc[t] = "done" =>
          LET lg == sessions[local[t].session].log
          IN  /\ lg # << >>
              /\ \A k \in 1..Len(lg) : (lg[k] = "close") <=> (k = Len(lg))
              /\ local[t].op = "get_db" => lg = <<"close">>
              /\ (local[t].op = "get_db_context" /\ ~local[t].raised) =>
                    lg[1] = "commit"
              /\ (local[t].op = "get_db_context" /\ local[t].raised) =>
                    lg = <<"rollback", "close">>

\* one request through get_db_context has raised and is complete while
\* another, through get_db, is still using its own session
C25_Witness ==
    \E t \in Threads, u \in Threads :
        /\ pc[t] = "done"
        /\ local[t].op = "get_db_context"
        /\ local[t].raised
        /\ sessions[local[t].session].log = <<"rollback", "close">>
        /\ pc[u] = "body"
        /\ local[u].op = "get_db"

(***************************************************************************)
(* The rate limiter (backend/app/decorators/rate_limit.py).  Time is a     *)
(* whole number of seconds.  is_allowed reads the time, takes the lock,    *)
(* and decides under the lock; time passes between any two steps.          *)
(***************************************************************************)
MaxClock == 3

\* resolve_bucket: the bucket of a call, from the identifier scope and the
\* user id / client host found in the arguments (None when not found)
ResolveBucket(identifier, user_id, host) ==
    IF identifier = "user" /\ user_id # None THEN <<"user", user_id[1]>>
    ELSE IF identifier = "ip" /\ host # None THEN <<"ip", host[1]>>
    ELSE <<"global">>

\* build_key: f"{func.__module__}.{func.__qualname__}:{bucket}"
BuildKey(func, bucket) == <<func>> \o bucket

\* the key of the calls of a user to the decorated function
UserKey(u) == BuildKey("get_expenses", ResolveBucket("user", Some(u), None))

\* @rate_limit(limit=..., window=...): the limit and window of the key
LimitOf(key) == IF key = UserKey(1) THEN 2 ELSE 1
WindowOf(key) == IF key = UserKey(1) THEN 2 ELSE 3

\* self._calls.setdefault(key, [])
CallsOf(key) == IF key \in DOMAIN calls THEN calls[key] ELSE << >>

\* [ts for ts in timestamps if now - ts < window]
RECURSIVE Recent(_, _, _)
Recent(timestamps, t, window) ==
    IF timestamps = << >> THEN << >>
    ELSE IF t - Head(timestamps) < window
         THEN <<Head(timestamps)>> \o Recent(Tail(timestamps), t, window)
         ELSE Recent(Tail(timestamps), t, window)

\* time passes
Tick ==
    /\ clock < MaxClock
    /\ clock' = clock + 1
    /\ UNCHANGED <<ledgerVars, threadVars, singletonVars, services, sessions,
                   calls, limiterLock, allowed>>

\* is_allowed: now = time.time()
ReadTime(t, key) ==
    /\ pc[t] = "idle"
    /\ pc' = [pc EXCEPT ![t] = "limiter_lock"]
    /\ local' = [local EXCEPT ![t] = [op |-> "is_allowed", key |-> key, now |-> clock]]
    /\ UNCHANGED <<ledgerVars, singletonVars, services, sessions, limiterVars>>

\* with self._lock:  (blocks while another thread holds the lock)
LimiterAcquire(t) ==
    /\ pc[t] = "limiter_lock"
    /\ limiterLock = None
    /\ limiterLock' = Some(t)
    /\ pc' = [pc EXCEPT ![t] = "decide"]
    /\ UNCHANGED <<ledgerVars, local, singletonVars, services, sessions, calls,
                   clock, allowed>>

\* the block under the lock, with a denied call recorded like an allowed one
Decide_RecordDenied(t) ==
    LET key        == local[t].key
        timestamps == Recent(CallsOf(key), local[t].now, WindowOf(key))
        ok         == Len(timestamps) < LimitOf(key)
    IN  /\ pc[t] = "decide"
        /\ calls' = [k \in DOMAIN calls \cup {key} |->
                       IF k = key THEN Append(timestamps, local[t].now)
                       ELSE calls[k]]
        /\ allowed' = IF ok
                      THEN [allowed EXCEPT ![key][local[t].now] = @ + 1]
                      ELSE allowed
        /\ limiterLock' = None
        /\ pc' = [pc EXCEPT ![t] = "done"]
        /\ local' = [local EXCEPT ![t] = [op |-> "is_allowed", key |-> key,
                                          now |-> local[t].now, status |-> "ok",
                                          result |-> ok]]
        /\ UNCHANGED <<ledgerVars, singletonVars, services, sessions, clock>>

\* the block under the lock: drop the timestamps outside the window, answer
\* False if limit or more remain, otherwise record now and answer True
Decide(t) ==
    LET key        == local[t].key
        timestamps == Recent(CallsOf(key), local[t].now, WindowOf(key))
        ok         == Len(timestamps) < LimitOf(key)
    IN  /\ pc[t] = "decide"
        /\ calls' = [k \in DOMAIN calls \cup {key} |->
                       IF k = key
                       THEN (IF ok THEN Append(timestamps, local[t].now)
                             ELSE timestamps)
                       ELSE calls[k]]
        /\ allowed' = IF ok
                      THEN [allowed EXCEPT ![key][local[t].now] = @ + 1]
                      ELSE allowed
        /\ limiterLock' = None
        /\ pc' = [pc EXCEPT ![t] = "done"]
        /\ local' = [local EXCEPT ![t] = [op |-> "is_allowed", key |-> key,
                                          now |-> local[t].now, status |-> "ok",
                                          result |-> ok]]
        /\ UNCHANGED <<ledgerVars, singletonVars, services, sessions, clock>>

(***************************************************************************)
(* Concurrent calls under the keys of two users, from every thread.        *)
(***************************************************************************)
LimiterKeys == {UserKey(1), UserKey(2)}

InitLimiter ==
    /\ LedgerIdle
    /\ pc = [t \in Threads |-> "idle"]
    /\ local = [t \in Threads |-> NoCall]
    /\ lock = None /\ instances = [c \in Classes |-> None]
    /\ objects = << >> /\ returned = {}
    /\ services = << >>
    /\ sessions = << >>
    /\ calls = << >> /\ limiterLock = None /\ clock = 0
    /\ allowed = [k \in LimiterKeys \cup {UserKey(t) : t \in Threads} |->
                    [ts \in 0..MaxClock |-> 0]]

NextLimiter ==
    \/ Tick
    \/ \E t \in Threads, k \in LimiterKeys : ReadTime(t, k)
    \/ \E t \in Threads : LimiterAcquire(t)
    \/ \E t \in Threads : Decide(t)
    \/ \E t \in Threads : Ack(t)

SpecLimiter == InitLimiter /\ [][NextLimiter]_vars

RECURSIVE SumCounts(_, _, _)
\* the number of calls counted in f with a timestamp in lo..hi
SumCounts(f, lo, hi) ==
    IF lo > hi THEN 0
    ELSE (IF lo \in DOMAIN f THEN f[lo] ELSE 0) + SumCounts(f, lo + 1, hi)

\* C26: for every key, the calls answered True with timestamps in any
\* interval shorter than the window of the key are at most its limit.
C26_RateLimitBound ==
    \A k \in DOMAIN allowed : \A a \in 0..MaxClock :
        SumCounts(allowed[k], a, a + WindowOf(k) - 1) <= LimitOf(k)

(***************************************************************************)
(* Each thread is one user calling under its own key, the users            *)
(* interleaved, with time passing between the calls.                       *)
(***************************************************************************)
InitRecovery == InitLimiter

NextRecovery ==
    \/ Tick
    \/ \E t \in Threads : ReadTime(t, UserKey(t))
    \/ \E t \in Threads : LimiterAcquire(t)
    \/ \E t \in Threads : Decide(t)
    \/ \E t \in Threads : Ack(t)

SpecRecovery == InitRecovery /\ [][NextRecovery]_vars

\* C27: a call is answered True exactly when fewer than limit calls of its
\* key were answered True within the last window seconds before its
\* timestamp; a call answered False adds no timestamp to the record of its
\* key; and no call changes what is recorded or was answered for another
\* key.
C27_RecoveryAndIndependence ==
    [][\A t \in Threads : (pc[t] = "decide" /\ pc'[t] = "done") =>
          LET key    == local[t].key
              recent == SumCounts(allowed[key],
                                  local[t].now - WindowOf(key) + 1, local[t].now)
          IN  /\ local'[t].result = (recent < LimitOf(key))
              /\ ~local'[t].result =>
                    /\ allowed'[key] = allowed[key]
                    /\ Len(calls'[key]) <= Len(CallsOf(key))
                    /\ \A i \in 1..Len(calls'[key]) :
                          \E j \in 1..Len(CallsOf(key)) : calls'[key][i] = calls[key][j]
              /\ \A k \in DOMAIN allowed \ {key} :
                    /\ allowed'[k] = allowed[k]
                    /\ CallsOf(k)' = CallsOf(k)]_vars

\* user 1, whose two calls at time 0 used up its limit, is allowed again at
\* time 2, when they are no longer within its window; another user's call
\* was recorded meanwhile
C27_Witness ==
    /\ pc[1] = "done"
    /\ local[1].result
    /\ local[1].now = 2
    /\ allowed[UserKey(1)][0] = 2
    /\ allowed[UserKey(1)][1] = 0
    /\ allowed[UserKey(2)][1] = 1
    /\ CallsOf(UserKey(1)) = <<2>>

(***************************************************************************)
(* All the pages of a listing: get_expenses called for page 1, 2, ... up   *)
(* to the number of pages it reports, with the same filters and limit and  *)
(* no write in between.  Each call is a query of its own, so the store     *)
(* orders rows of equal date anew in each.                                 *)
(***************************************************************************)
\* the data of page 1..pages of get_expenses: the possible results
AllPagesData(table, user, f, limit) ==
    LET total == Cardinality(FilteredQuery(table, user, f))
        pages == (total + limit - 1) \div limit
        PageData(p) == {[i \in 1..Len(res.expenses) |->
                            ExpenseToResponse(res.expenses[i])] :
                        res \in ListExpenses(table, user, f, p, limit)}
    IN  {d \in [1..pages -> UNION {PageData(p) : p \in 1..pages}] :
            \A p \in 1..pages : d[p] \in PageData(p)}

GetAllPages(user, f, limit) ==
    /\ Idle
    /\ \E d \in AllPagesData(expenses, user, f, limit) :
          resp' = Ok("get_expenses_pages", user, [filter |-> f, limit |-> limit], d)
    /\ UNCHANGED <<expenses, nextId, now, coreVars>>

PartitionCreates ==
    {BaseCreate(1000, "food", D1), BaseCreate(2000, "rent", D1),
     BaseCreate(1000, "food", D2)}

PartitionUpdates == {[date |-> D2]}

PartitionFilters == {NoFilter, [NoFilter EXCEPT !.min_amount = Some(1000)]}

InitPartition == InitAt({D3})

NextPartition ==
    \/ Crud({"u1"}, PartitionCreates, PartitionUpdates, MaxRows)
    \/ \E f \in PartitionFilters, limit \in 1..MaxLimit : GetAllPages("u1", f, limit)
    \/ Consume

SpecPartition == InitPartition /\ [][NextPartition]_vars

\* how many times the id is listed on the pages
RECURSIVE TimesListed(_, _)
TimesListed(pages, id) ==
    IF pages = << >> THEN 0
    ELSE Cardinality({i \in 1..Len(Head(pages)) : Head(pages)[i].id = id})
         + TimesListed(Tail(pages), id)

\* C30: over the pages 1..pages of one listing every matching row is
\* listed exactly once, and no other row is listed.
C30_PagePartition ==
    resp.op = "get_expenses_pages" =>
        \A i \in DOMAIN expenses :
            TimesListed(resp.data, i) =
                IF expenses[i] \in Selected(expenses, resp.user, resp.args.filter)
                THEN 1 ELSE 0

====
